---- MODULE Spec2Model ----
(***************************************************************************)
(* openqueue: the durable step executor (StepExecutor), the per-dispatch   *)
(* driver (ActiveJobExecutor), the job-state container (JobStateManager /  *)
(* StepStateManager) and the queue operations they use.                    *)
(*                                                                         *)
(* One caller workflow "A" and one target workflow "B" are registered in   *)
(* the client.  Every workflow has its own queue and its own worker; a     *)
(* worker processes one job at a time (the default local concurrency).     *)
(* Every queue/Redis operation of the code (updateData, changePriority,    *)
(* moveToDelayed, add, getJob, getState, getDelayed, promote and the       *)
(* worker's final move of the job) is one atomic step, so the dispatches   *)
(* of the two workflows interleave between any two of them.                *)
(***************************************************************************)
EXTENDS Integers, Sequences, FiniteSets, TLC

VARIABLES
    options,     \* the client, a workflow id -> the priority of its default job options
    body,        \* workflow id -> the step calls of its function, in order
    jobs,        \* job id -> the job as the queue stores it
    run,         \* workflow id -> the dispatch its worker is processing
    calls,       \* job id -> step id -> user-function calls that returned
    moves,       \* job id -> step id -> moves to the delayed set by the step
    idWrites,    \* job id -> step id -> writes of result.jobId
    dispatches,  \* job id -> dispatches started
    lastMove,    \* job id -> the step that last moved the job, and the dispatch
    outcomes     \* job id -> step id -> how the calls of a repeat step's function ended

vars == <<options, body, jobs, run, calls, moves, idWrites, dispatches, lastMove, outcomes>>

(***************************************************************************)
(* Bounds of the model.                                                    *)
(***************************************************************************)
MaxJobs == 3          \* job ids 1..MaxJobs; job 1 is the caller's job
MaxDispatches == 4    \* dispatches of one job
MaxAttempts == 2      \* the attempts option the jobs are created with

(***************************************************************************)
(* Program constants.                                                      *)
(***************************************************************************)
DefaultPriority == 2
DelayedPriority == 1
PollInterval == 1000
SleepDuration == 1000
RepeatEvery == 864000000

Wfs == {"A", "B"}              \* the workflows registered with the client
JobIds == 1..MaxJobs
StepIds == {"a", "s", "t", "u", "p", "q", "i", "k", "b", "z"}
Values == {41, 42}

(***************************************************************************)
(* Step results.  A result is the user value, the boolean of a sleep or an *)
(* exhausted repeat, or one of the two protocol records.                   *)
(***************************************************************************)
Null == [t |-> "null", v |-> 0, attempt |-> 0, needsDelay |-> FALSE]
Val(x) == [t |-> "val", v |-> x, attempt |-> 0, needsDelay |-> FALSE]
True == [t |-> "true", v |-> 0, attempt |-> 0, needsDelay |-> FALSE]
False == [t |-> "false", v |-> 0, attempt |-> 0, needsDelay |-> FALSE]
JobRef(j) == [t |-> "jobId", v |-> j, attempt |-> 0, needsDelay |-> FALSE]
RepeatState(n, nd) == [t |-> "repeat", v |-> 0, attempt |-> n, needsDelay |-> nd]

(***************************************************************************)
(* The step calls of a workflow function.                                  *)
(***************************************************************************)
RunCall(id) ==
    [id |-> id, kind |-> "run", limit |-> 0, every |-> 0, workflow |-> "-", also |-> "-"]
SleepCall(id) ==
    [id |-> id, kind |-> "sleep", limit |-> 0, every |-> 0, workflow |-> "-", also |-> "-"]
SleepUntilCall(id) ==
    [id |-> id, kind |-> "sleep-until", limit |-> 0, every |-> 0, workflow |-> "-", also |-> "-"]
RepeatCall(id, n, e) ==
    [id |-> id, kind |-> "repeat", limit |-> n, every |-> e, workflow |-> "-", also |-> "-"]
InvokeCall(id, wf) ==
    [id |-> id, kind |-> "invoke", limit |-> 0, every |-> 0, workflow |-> wf, also |-> "-"]

\* await Promise.all([ctx.invoke({id, workflow: wf}), ctx.invoke({id: also, workflow: wf})])
ParallelInvoke(id, also, wf) ==
    [id |-> id, kind |-> "all", limit |-> 0, every |-> 0, workflow |-> wf, also |-> also]

CallerBodies ==
    { <<RunCall("a"), SleepCall("s")>>,
      <<SleepCall("s"), RunCall("a")>>,
      <<SleepCall("s"), RunCall("a"), SleepUntilCall("u")>>,
      <<SleepUntilCall("u"), SleepCall("s")>>,
      <<InvokeCall("i", "B"), RunCall("a")>>,
      <<SleepCall("s"), InvokeCall("i", "B")>>,
      <<RepeatCall("p", 2, RepeatEvery), RunCall("a")>>,
      <<RepeatCall("q", 2, 0)>>,
      <<RunCall("a"), SleepCall("s"), RepeatCall("p", 2, RepeatEvery)>>,
      <<SleepCall("s"), RepeatCall("p", 1, 0), SleepUntilCall("u")>>,
      <<RepeatCall("q", 0, 0), RunCall("a")>>,
      <<InvokeCall("i", "X"), RunCall("a")>> }

\* README, Advanced Patterns: Parallel Invocation
ParallelBody == <<ParallelInvoke("i", "k", "B")>>

TargetBodies == { <<RunCall("b")>>, <<SleepCall("z"), RunCall("b")>> }

HasInvoke(b) == \E k \in 1..Len(b) : b[k].kind \in {"invoke", "all"} /\ b[k].workflow = "B"

(***************************************************************************)
(* StepState and JobState (job-state.ts).                                  *)
(***************************************************************************)
NoSteps == [s \in {} |-> Null]

StepState(type) == [type |-> type, status |-> "active", result |-> Null, error |-> "none"]

Metrics == [startedAt |-> FALSE, completedAt |-> FALSE]

\* JobStateManager.prepareData (static): a record that parses as a JobState
\* is returned as it is, anything else is wrapped as the source of a new one.
prepareData(data) ==
    IF data.openqueue
    THEN [wasPrepared |-> TRUE, data |-> data]
    ELSE [wasPrepared |-> FALSE,
          data |-> [openqueue |-> TRUE, source |-> data.source, steps |-> NoSteps,
                    invocations |-> <<>>, metrics |-> Metrics, errors |-> <<>>]]

\* The payload of a job: what the client gave, and how many times a
\* transform of the workflow's schema has been applied to it.
NoSource == [of |-> "-", passes |-> 0]
Input == [of |-> "src", passes |-> 0]

\* the workflows whose schema has a field with a transform that maps its own
\* output to something else, such as z.string().transform(s => s + "!")
Transforming == {"B"}

\* JobStateManager.parseSourceData: this.__workflow.__schema.parse(data)
parseSourceData(wf, x) ==
    IF wf \in Transforming THEN [x EXCEPT !.passes = @ + 1] ELSE x

\* A raw user payload, as createJob receives it.
Payload(x) ==
    [openqueue |-> FALSE, source |-> x, steps |-> NoSteps,
     invocations |-> <<>>, metrics |-> Metrics, errors |-> <<>>]

\* What JSON keeps of a JobState: a step's error holds the function
\* e.toString, which JSON.stringify leaves out.
ToJSON(data) ==
    [data EXCEPT !.steps = [s \in DOMAIN data.steps |-> [data.steps[s] EXCEPT !.error = "none"]]]

typeOf(kind) == IF kind = "invoke" THEN "invoke-wait-for-result" ELSE kind

(***************************************************************************)
(* The queue's job and the dispatch of a worker.                           *)
(***************************************************************************)
NoJob ==
    [wf |-> "-", state |-> "none", data |-> Payload(NoSource), returnvalue |-> Null,
     priority |-> 0, attemptsMade |-> 0, attempts |-> 0, delay |-> 0,
     by |-> [job |-> 0, step |-> "-"], subscribed |-> FALSE, promotedBy |-> 0]

NoRet == [step |-> "-", how |-> "none", ran |-> FALSE, result |-> Null]

\* one of the two executeInvoke calls of a Promise.all: where it stands, the
\* job it invoked, the returnvalue it read and what it returned
NoBranch == [pc |-> "-", invoked |-> 0, snap |-> Null, value |-> Null]

Idle ==
    [job |-> 0, pc |-> "idle", ip |-> 0, data |-> Payload(NoSource), handles |-> NoSteps,
     linked |-> {}, shared |-> {}, ret |-> NoRet, out |-> "none", value |-> Null,
     invoked |-> 0, snap |-> Null, ni |-> 0, target |-> 0, woke |-> "-", due |-> {},
     promoter |-> 0, promoted |-> {}, tries |-> 0, par |-> <<NoBranch, NoBranch>>,
     errorsLogged |-> 0]

\* Workflow.createJob: the payload is validated, prepared and added to the queue.
createJob(wf, payload, creator) ==
    [wf |-> wf, state |-> "waiting",
     data |-> prepareData(Payload(parseSourceData(wf, payload))).data,
     returnvalue |-> Null, priority |-> DefaultPriority, attemptsMade |-> 0,
     attempts |-> MaxAttempts, delay |-> 0, by |-> creator,
     subscribed |-> FALSE, promotedBy |-> 0]

(***************************************************************************)
(* JobStateManager / StepStateManager on the state of one dispatch d.      *)
(* d.data is this.data, d.handles the StepStateManagers of this.steps.     *)
(* d.linked holds the steps whose handle is the very object stored in      *)
(* this.data.__steps, d.shared those whose result object alone is shared   *)
(* with it (the schema's parse copies the records but passes z.any()       *)
(* values through by reference).                                           *)
(***************************************************************************)
\* JobStateManager.forStep
forStep(d, id, type) ==
    IF id \in DOMAIN d.handles THEN d
    ELSE IF id \in DOMAIN d.data.steps
    THEN [d EXCEPT !.handles = (id :> d.data.steps[id]) @@ @, !.linked = @ \cup {id}]
    ELSE [d EXCEPT !.handles = (id :> StepState(type)) @@ @]

\* an assignment to fields of stepState.data other than result
setFields(d, id, st) ==
    [d EXCEPT !.handles[id] = st,
              !.data.steps = IF id \in d.linked THEN [@ EXCEPT ![id] = st] ELSE @]

\* stepState.data.status = status
setStatus(d, id, status) ==
    setFields(d, id, [d.handles[id] EXCEPT !.status = status])

\* stepState.data.result = a new value
setResult(d, id, res) ==
    [setFields(d, id, [d.handles[id] EXCEPT !.result = res]) EXCEPT !.shared = @ \ {id}]

\* a mutation of the object stepState.data.result refers to
mutateResult(d, id, res) ==
    [d EXCEPT !.handles[id].result = res,
              !.data.steps = IF id \in d.linked \cup d.shared
                             THEN [@ EXCEPT ![id].result = res] ELSE @]

\* StepStateManager.start
start(d, id) == setStatus(d, id, "active")

\* StepStateManager.complete
complete(d, id, res) == setResult(setStatus(d, id, "completed"), id, res)

\* StepStateManager.error
error(d, id) ==
    setFields(d, id, [d.handles[id] EXCEPT !.status = "failed", !.error = "fn"])

\* JobStateManager.updateData: this.data becomes the parsed copy, and the
\* copy is what is written to the job's data slot.
updateData(d) ==
    [d EXCEPT !.shared = (@ \cup d.linked) \cap DOMAIN d.data.steps, !.linked = {}]

Stored(d) == ToJSON(d.data)

\* a finish that leaves this.data.__steps as it was loaded
leavesSteps(d) == d

\* JobStateManager.finish
finish(d) ==
    [d EXCEPT !.data.steps = d.handles, !.linked = DOMAIN d.handles, !.shared = {}]

Returned(d, id, ran, res) ==
    [d EXCEPT !.ret = [step |-> id, how |-> "returned", ran |-> ran, result |-> res],
              !.value = res, !.ip = @ + 1, !.pc = "step"]

\* the catch block that returns instead of rethrowing
Swallowed(d, id, how) ==
    [d EXCEPT !.ret = [step |-> id, how |-> how, ran |-> TRUE, result |-> Null],
              !.out = "value", !.pc = "finally"]

Threw(d, id, how) ==
    [d EXCEPT !.ret = [step |-> id, how |-> how, ran |-> TRUE, result |-> Null],
              !.out = how, !.pc = "finally"]

Bump(f, j, id) == [f EXCEPT ![j][id] = @ + 1]

NoOutcomes == [truthy |-> 0, falsy |-> 0, thrown |-> 0]

(***************************************************************************)
(* Default job options, of which the model keeps the priority: absent, or  *)
(* the object DefaultPrioritySchema has parsed.                            *)
(***************************************************************************)
NoPriority == [given |-> FALSE, defaultValue |-> 0, delayDefaultValue |-> 0]

Priority(value, delayed) == [given |-> TRUE, defaultValue |-> value, delayDefaultValue |-> delayed]

\* neither the client nor a workflow is given a priority
NoOptions == [x \in Wfs \cup {"client"} |-> NoPriority]

\* the client is given { priority: { delayDefaultValue: 3 } } and workflow B
\* { priority: { delayDefaultValue: 4 } }; workflow A is given nothing
ClientDelayedPriority == 3

WorkflowDelayedPriority == 4

SomeOptions ==
    [x \in Wfs \cup {"client"} |->
        IF x = "client" THEN Priority(DefaultPriority, ClientDelayedPriority)
        ELSE IF x = "B" THEN Priority(DefaultPriority, WorkflowDelayedPriority)
        ELSE NoPriority]

\* Workflow.getDefaultJobOptions(withClientDefaults).priority
getDefaultJobOptions(w, withClientDefaults) ==
    IF withClientDefaults /\ ~options[w].given THEN options["client"] ELSE options[w]

\* executeSleep: getDefaultJobOptions().priority?.delayDefaultValue ?? 1
delayedPriority(w) ==
    LET priority == getDefaultJobOptions(w, FALSE)
    IN  IF priority.given THEN priority.delayDefaultValue ELSE DelayedPriority

(***************************************************************************)
(* Initial state: the client is started and one job of A is created.       *)
(***************************************************************************)
Init ==
    /\ options = NoOptions
    /\ \E ba \in CallerBodies, bb \in TargetBodies :
          /\ HasInvoke(ba) \/ bb = <<RunCall("b")>>
          /\ body = [w \in Wfs |-> IF w = "A" THEN ba ELSE bb]
    /\ jobs = [j \in JobIds |-> IF j = 1 THEN createJob("A", Input, [job |-> 0, step |-> "-"])
                                ELSE NoJob]
    /\ run = [w \in Wfs |-> Idle]
    /\ calls = [j \in JobIds |-> [s \in StepIds |-> 0]]
    /\ moves = [j \in JobIds |-> [s \in StepIds |-> 0]]
    /\ idWrites = [j \in JobIds |-> [s \in StepIds |-> 0]]
    /\ dispatches = [j \in JobIds |-> 0]
    /\ lastMove = [j \in JobIds |-> [step |-> "-", n |-> 0]]
    /\ outcomes = [j \in JobIds |-> [s \in StepIds |-> NoOutcomes]]

(***************************************************************************)
(* The worker takes a waiting job: Workflow.processJob, ActiveJobExecutor. *)
(* init (JobStateManager.init) and the start of execute.                   *)
(***************************************************************************)
\* the step whose move to the delayed set ended the job's previous dispatch
Woke(j) == IF lastMove[j].n = dispatches[j] /\ dispatches[j] > 0 THEN lastMove[j].step ELSE "-"

\* the stored steps of job j that wait for a job that has completed or failed
Due(j) ==
    {s \in DOMAIN jobs[j].data.steps :
        /\ jobs[j].data.steps[s].status = "delayed"
        /\ jobs[j].data.steps[s].result.t = "jobId"
        /\ jobs[jobs[j].data.steps[s].result.v].state \in {"completed", "failed"}}

Fetch(w) ==
    /\ run[w].pc = "idle"
    /\ \E j \in JobIds :
          /\ jobs[j].wf = w
          /\ jobs[j].state = "waiting"
          /\ dispatches[j] < MaxDispatches
          /\ LET prepared == prepareData(jobs[j].data)
                 loaded == [prepared.data EXCEPT !.source = parseSourceData(w, @),
                                                 !.metrics.startedAt = TRUE]
             IN  /\ run' = [run EXCEPT ![w] = [Idle EXCEPT !.job = j, !.pc = "step",
                                                           !.ip = 1, !.data = loaded,
                                                           !.woke = Woke(j), !.due = Due(j),
                                                           !.promoter = jobs[j].promotedBy]]
                 /\ jobs' = [jobs EXCEPT ![j].state = "active",
                                         ![j].promotedBy = 0,
                                         ![j].data = IF prepared.wasPrepared THEN @
                                                     ELSE ToJSON(prepared.data)]
          /\ dispatches' = [dispatches EXCEPT ![j] = @ + 1]
    /\ UNCHANGED <<options, body, calls, moves, idWrites, lastMove, outcomes>>

AtStep(w, kinds) ==
    /\ run[w].pc = "step"
    /\ run[w].ip <= Len(body[w])
    /\ body[w][run[w].ip].kind \in kinds

Call(w) == body[w][run[w].ip]

(***************************************************************************)
(* StepExecutor.executeRun                                                 *)
(***************************************************************************)
RunSkip(w) ==
    /\ AtStep(w, {"run"})
    /\ LET id == Call(w).id
           d == forStep(run[w], id, "run")
       IN  /\ d.handles[id].status = "completed"
           /\ run' = [run EXCEPT ![w] = Returned(d, id, FALSE, d.handles[id].result)]
    /\ UNCHANGED <<options, body, jobs, calls, moves, idWrites, dispatches, lastMove, outcomes>>

RunOk(w) ==
    /\ AtStep(w, {"run"})
    /\ LET id == Call(w).id
           d == forStep(run[w], id, "run")
       IN  /\ d.handles[id].status # "completed"
           /\ \E v \in Values :
                 LET e == updateData(complete(d, id, Val(v)))
                 IN  /\ run' = [run EXCEPT ![w] = Returned(e, id, TRUE, Val(v))]
                     /\ jobs' = [jobs EXCEPT ![d.job].data = Stored(e)]
           /\ calls' = Bump(calls, d.job, id)
    /\ UNCHANGED <<options, body, moves, idWrites, dispatches, lastMove, outcomes>>

RunThrow(w) ==
    /\ AtStep(w, {"run"})
    /\ LET id == Call(w).id
           d == forStep(run[w], id, "run")
       IN  /\ d.handles[id].status # "completed"
           /\ LET e == updateData(error(d, id))
              IN  /\ run' = [run EXCEPT ![w] = Threw(e, id, "error")]
                  /\ jobs' = [jobs EXCEPT ![d.job].data = Stored(e)]
    /\ UNCHANGED <<options, body, calls, moves, idWrites, dispatches, lastMove, outcomes>>

\* the user function throws bullmq's UnrecoverableError: the catch block
\* records it like any error and rethrows the very object
RunUnrecoverable(w) ==
    /\ AtStep(w, {"run"})
    /\ LET id == Call(w).id
           d == forStep(run[w], id, "run")
       IN  /\ d.handles[id].status # "completed"
           /\ LET e == updateData(error(d, id))
              IN  /\ run' = [run EXCEPT ![w] = Threw(e, id, "unrecoverable")]
                  /\ jobs' = [jobs EXCEPT ![d.job].data = Stored(e)]
    /\ UNCHANGED <<options, body, calls, moves, idWrites, dispatches, lastMove, outcomes>>

(***************************************************************************)
(* StepExecutor.executeSleep and executeSleepUntil                         *)
(***************************************************************************)
SleepResume(w) ==
    /\ AtStep(w, {"sleep", "sleep-until"})
    /\ LET id == Call(w).id
           d == forStep(run[w], id, Call(w).kind)
       IN  /\ d.handles[id].status = "delayed"
           /\ LET e == updateData(complete(d, id, True))
              IN  /\ run' = [run EXCEPT ![w] = Returned(e, id, TRUE, True)]
                  /\ jobs' = [jobs EXCEPT ![d.job].data = Stored(e)]
    /\ UNCHANGED <<options, body, calls, moves, idWrites, dispatches, lastMove, outcomes>>

SleepFirst(w) ==
    /\ AtStep(w, {"sleep", "sleep-until"})
    /\ LET id == Call(w).id
           d == forStep(run[w], id, Call(w).kind)
       IN  /\ d.handles[id].status # "delayed"
           /\ LET e == updateData(setStatus(start(d, id), id, "delayed"))
              IN  /\ run' = [run EXCEPT ![w] = [e EXCEPT !.pc = "sleep-priority"]]
                  /\ jobs' = [jobs EXCEPT ![d.job].data = Stored(e)]
    /\ UNCHANGED <<options, body, calls, moves, idWrites, dispatches, lastMove, outcomes>>

SleepPriority(w) ==
    /\ run[w].pc = "sleep-priority"
    /\ jobs' = [jobs EXCEPT ![run[w].job].priority = delayedPriority(w)]
    /\ run' = [run EXCEPT ![w].pc = "sleep-delay"]
    /\ UNCHANGED <<options, body, calls, moves, idWrites, dispatches, lastMove, outcomes>>

\* ActiveJob.delay: the job leaves the active list for the delayed set
moveToDelayed(js, j, ms) == [js EXCEPT ![j].state = "delayed", ![j].delay = ms]

\* options.duration: what sleep is given, and for sleepUntil
\* options.timestamp - Date.now(), negative for a timestamp in the past
durations(call) ==
    IF call.kind = "sleep-until" THEN {SleepDuration, 0 - SleepDuration} ELSE {SleepDuration}

SleepDelay(w) ==
    /\ run[w].pc = "sleep-delay"
    /\ LET d == run[w]
           id == Call(w).id
       IN  /\ \E ms \in durations(Call(w)) : jobs' = moveToDelayed(jobs, d.job, ms)
           /\ run' = [run EXCEPT ![w] = Threw(d, id, "suspend")]
           /\ moves' = Bump(moves, d.job, id)
           /\ lastMove' = [lastMove EXCEPT ![d.job] = [step |-> id, n |-> dispatches[d.job]]]
    /\ UNCHANGED <<options, body, calls, idWrites, dispatches, outcomes>>

(***************************************************************************)
(* StepExecutor.executeRepeat.  The protocol record {attempt, lastResult,  *)
(* completed, needsDelay} is RepeatState(attempt, needsDelay): lastResult  *)
(* is falsy and completed is false as long as the record is the result.    *)
(***************************************************************************)
\* the dispatch with the step's handle, wherever executeRepeat stands
RepeatHandle(w) ==
    IF run[w].pc = "step" THEN forStep(run[w], Call(w).id, "repeat") ELSE run[w]

AtRepeatEntry(w) ==
    /\ AtStep(w, {"repeat"})
    /\ RepeatHandle(w).handles[Call(w).id].status # "completed"

\* at the check 'status === "delayed" && repeatState.needsDelay'
AtRepeatResume(w) ==
    \/ run[w].pc = "repeat-resume"
    \/ AtRepeatEntry(w) /\ RepeatHandle(w).handles[Call(w).id].result.t # "null"

IsDelayedRepeat(st) == st.status = "delayed" /\ st.result.needsDelay

\* at the check 'repeatState.attempt >= options.limit'
AtRepeatAttempt(w) ==
    \/ run[w].pc = "repeat-attempt"
    \/ AtRepeatResume(w) /\ ~IsDelayedRepeat(RepeatHandle(w).handles[Call(w).id])

RepeatSkip(w) ==
    /\ AtStep(w, {"repeat"})
    /\ LET id == Call(w).id
           d == RepeatHandle(w)
       IN  /\ d.handles[id].status = "completed"
           /\ run' = [run EXCEPT ![w] = Returned(d, id, FALSE, d.handles[id].result)]
    /\ UNCHANGED <<options, body, jobs, calls, moves, idWrites, dispatches, lastMove, outcomes>>

RepeatInit(w) ==
    /\ AtRepeatEntry(w)
    /\ LET id == Call(w).id
           d == RepeatHandle(w)
       IN  /\ d.handles[id].result.t = "null"
           /\ LET e == updateData(setResult(start(d, id), id, RepeatState(0, FALSE)))
              IN  /\ run' = [run EXCEPT ![w] = [e EXCEPT !.pc = "repeat-resume"]]
                  /\ jobs' = [jobs EXCEPT ![d.job].data = Stored(e)]
    /\ UNCHANGED <<options, body, calls, moves, idWrites, dispatches, lastMove, outcomes>>

RepeatResume(w) ==
    /\ AtRepeatResume(w)
    /\ LET id == Call(w).id
           d == RepeatHandle(w)
           rs == d.handles[id].result
       IN  /\ IsDelayedRepeat(d.handles[id])
           /\ LET e == updateData(setStatus(
                          mutateResult(d, id, RepeatState(rs.attempt, FALSE)), id, "active"))
              IN  /\ run' = [run EXCEPT ![w] = [e EXCEPT !.pc = "repeat-attempt"]]
                  /\ jobs' = [jobs EXCEPT ![d.job].data = Stored(e)]
    /\ UNCHANGED <<options, body, calls, moves, idWrites, dispatches, lastMove, outcomes>>

RepeatExhausted(w) ==
    /\ AtRepeatAttempt(w)
    /\ LET id == Call(w).id
           d == RepeatHandle(w)
       IN  /\ d.handles[id].result.attempt >= Call(w).limit
           /\ LET e == updateData(complete(d, id, False))
              IN  /\ run' = [run EXCEPT ![w] = Returned(e, id, TRUE, False)]
                  /\ jobs' = [jobs EXCEPT ![d.job].data = Stored(e)]
    /\ UNCHANGED <<options, body, calls, moves, idWrites, dispatches, lastMove, outcomes>>

RepeatTruthy(w) ==
    /\ AtRepeatAttempt(w)
    /\ LET id == Call(w).id
           d == RepeatHandle(w)
           rs == d.handles[id].result
       IN  /\ rs.attempt < Call(w).limit
           /\ \E v \in Values :
                 LET e == updateData(complete(
                             mutateResult(d, id, RepeatState(rs.attempt + 1, rs.needsDelay)),
                             id, Val(v)))
                 IN  /\ run' = [run EXCEPT ![w] = [Returned(e, id, TRUE, Val(v))
                                                       EXCEPT !.tries = @ + 1]]
                     /\ jobs' = [jobs EXCEPT ![d.job].data = Stored(e)]
           /\ calls' = Bump(calls, d.job, id)
           /\ outcomes' = [outcomes EXCEPT ![d.job][id].truthy = @ + 1]
    /\ UNCHANGED <<options, body, moves, idWrites, dispatches, lastMove>>

\* a pacing test that does not look at every
pacesAlways(call, attempt) == attempt < call.limit

\* whether the job is delayed before the next attempt
needsPacing(call, attempt) == call.every > 0 /\ attempt < call.limit

\* a falsy result: the job is delayed before the next attempt when every is
\* given and attempts are left, otherwise executeRepeat calls itself.
RepeatFalsy(w) ==
    /\ AtRepeatAttempt(w)
    /\ LET id == Call(w).id
           d == RepeatHandle(w)
           rs == d.handles[id].result
           n == rs.attempt + 1
       IN  /\ rs.attempt < Call(w).limit
           /\ IF needsPacing(Call(w), n)
              THEN LET e == updateData(setStatus(
                               mutateResult(d, id, RepeatState(n, TRUE)), id, "delayed"))
                   IN  /\ run' = [run EXCEPT ![w] = [e EXCEPT !.pc = "repeat-delay",
                                                              !.tries = @ + 1]]
                       /\ jobs' = [jobs EXCEPT ![d.job].data = Stored(e)]
              ELSE LET e == updateData(setStatus(
                               mutateResult(d, id, RepeatState(n, rs.needsDelay)), id, "active"))
                   IN  /\ run' = [run EXCEPT ![w] = [e EXCEPT !.pc = "step", !.tries = @ + 1]]
                       /\ jobs' = [jobs EXCEPT ![d.job].data = Stored(e)]
           /\ calls' = Bump(calls, d.job, id)
           /\ outcomes' = [outcomes EXCEPT ![d.job][id].falsy = @ + 1]
    /\ UNCHANGED <<options, body, moves, idWrites, dispatches, lastMove>>

RepeatThrow(w) ==
    /\ AtRepeatAttempt(w)
    /\ LET id == Call(w).id
           d == RepeatHandle(w)
       IN  /\ d.handles[id].result.attempt < Call(w).limit
           /\ LET e == updateData(error(d, id))
              IN  /\ run' = [run EXCEPT ![w] = [Threw(e, id, "error") EXCEPT !.tries = @ + 1]]
                  /\ jobs' = [jobs EXCEPT ![d.job].data = Stored(e)]
           /\ outcomes' = [outcomes EXCEPT ![d.job][id].thrown = @ + 1]
    /\ UNCHANGED <<options, body, calls, moves, idWrites, dispatches, lastMove>>

RepeatDelay(w) ==
    /\ run[w].pc = "repeat-delay"
    /\ LET d == run[w]
           id == Call(w).id
       IN  /\ jobs' = moveToDelayed(jobs, d.job, Call(w).every)
           /\ run' = [run EXCEPT ![w] = Threw(d, id, "suspend")]
           /\ moves' = Bump(moves, d.job, id)
           /\ lastMove' = [lastMove EXCEPT ![d.job] = [step |-> id, n |-> dispatches[d.job]]]
    /\ UNCHANGED <<options, body, calls, idWrites, dispatches, outcomes>>

(***************************************************************************)
(* StepExecutor.executeInvoke                                              *)
(***************************************************************************)
\* a lookup in __client.__workflows that never misses
AnyWorkflow(wf) == TRUE

\* __client.__workflows[id] is defined
Registered(wf) == wf \in Wfs

FreeIds == {j \in JobIds : jobs[j].state = "none"}

\* a state answer that is completed whatever the queue holds
answersCompleted(j) == "completed"

\* invokedJob.getState(): the state of the job in the queue at the time of
\* the call
getState(j) == jobs[j].state

InvokeSkip(w) ==
    /\ AtStep(w, {"invoke"})
    /\ LET id == Call(w).id
           d == forStep(run[w], id, "invoke-wait-for-result")
       IN  /\ d.handles[id].status = "completed"
           /\ run' = [run EXCEPT ![w] = Returned(d, id, FALSE, d.handles[id].result)]
    /\ UNCHANGED <<options, body, jobs, calls, moves, idWrites, dispatches, lastMove, outcomes>>

\* resumption: getBullJob reads the invoked job, its returnvalue included
InvokeGetJob(w) ==
    /\ AtStep(w, {"invoke"})
    /\ LET id == Call(w).id
           d == forStep(run[w], id, "invoke-wait-for-result")
       IN  /\ d.handles[id].status = "delayed"
           /\ d.handles[id].result.t = "jobId"
           /\ Registered(Call(w).workflow)
           /\ run' = [run EXCEPT ![w] = [d EXCEPT !.pc = "invoke-state",
                                                  !.invoked = d.handles[id].result.v,
                                                  !.snap = jobs[d.handles[id].result.v].returnvalue]]
    /\ UNCHANGED <<options, body, jobs, calls, moves, idWrites, dispatches, lastMove, outcomes>>

\* resumption: getState says completed
InvokeCompleted(w) ==
    /\ run[w].pc = "invoke-state"
    /\ getState(run[w].invoked) = "completed"
    /\ LET id == Call(w).id
           d == run[w]
           e == updateData(complete(d, id, d.snap))
       IN  /\ run' = [run EXCEPT ![w] = Returned(e, id, TRUE, d.snap)]
           /\ jobs' = [jobs EXCEPT ![d.job].data = Stored(e)]
    /\ UNCHANGED <<options, body, calls, moves, idWrites, dispatches, lastMove, outcomes>>

\* resumption: getState says failed
InvokeFailed(w) ==
    /\ run[w].pc = "invoke-state"
    /\ getState(run[w].invoked) = "failed"
    /\ LET id == Call(w).id
           d == run[w]
           e == updateData(error(d, id))
       IN  /\ run' = [run EXCEPT ![w] = Threw(e, id, "error")]
           /\ jobs' = [jobs EXCEPT ![d.job].data = Stored(e)]
    /\ UNCHANGED <<options, body, calls, moves, idWrites, dispatches, lastMove, outcomes>>

\* resumption: any other state
InvokePending(w) ==
    /\ run[w].pc = "invoke-state"
    /\ getState(run[w].invoked) \notin {"completed", "failed"}
    /\ run' = [run EXCEPT ![w].pc = "invoke-redelay"]
    /\ UNCHANGED <<options, body, jobs, calls, moves, idWrites, dispatches, lastMove, outcomes>>

InvokeRedelay(w) ==
    /\ run[w].pc = "invoke-redelay"
    /\ LET d == run[w]
           id == Call(w).id
       IN  /\ jobs' = moveToDelayed(jobs, d.job, PollInterval)
           /\ run' = [run EXCEPT ![w] = Threw(d, id, "suspend")]
           /\ moves' = Bump(moves, d.job, id)
           /\ lastMove' = [lastMove EXCEPT ![d.job] = [step |-> id, n |-> dispatches[d.job]]]
    /\ UNCHANGED <<options, body, calls, idWrites, dispatches, outcomes>>

\* the target workflow is not among the client's workflows: on resumption
\* the error leaves executeInvoke as it is, on a first call the catch block
\* marks the step failed, stores the state and rethrows
InvokeUnknown(w) ==
    /\ AtStep(w, {"invoke"})
    /\ LET id == Call(w).id
           d == forStep(run[w], id, "invoke-wait-for-result")
       IN  /\ d.handles[id].status # "completed"
           /\ ~Registered(Call(w).workflow)
           /\ IF d.handles[id].status = "delayed"
              THEN /\ run' = [run EXCEPT ![w] = Threw(d, id, "error")]
                   /\ jobs' = jobs
              ELSE LET e == updateData(error(d, id))
                   IN  /\ run' = [run EXCEPT ![w] = Threw(e, id, "error")]
                       /\ jobs' = [jobs EXCEPT ![d.job].data = Stored(e)]
    /\ UNCHANGED <<options, body, calls, moves, idWrites, dispatches, lastMove, outcomes>>

\* first call: targetWorkflow.createJob(options.data)
InvokeCreate(w) ==
    /\ AtStep(w, {"invoke"})
    /\ LET id == Call(w).id
           d == forStep(run[w], id, "invoke-wait-for-result")
       IN  /\ d.handles[id].status \notin {"completed", "delayed"}
           /\ Registered(Call(w).workflow)
           /\ FreeIds # {}
           /\ LET j == CHOOSE x \in FreeIds : \A y \in FreeIds : x <= y
              IN  /\ jobs' = [jobs EXCEPT ![j] = createJob(Call(w).workflow, Input,
                                                           [job |-> d.job, step |-> id])]
                  /\ run' = [run EXCEPT ![w] = [d EXCEPT !.pc = "invoke-persist", !.invoked = j]]
    /\ UNCHANGED <<options, body, calls, moves, idWrites, dispatches, lastMove, outcomes>>

\* first call: the step keeps the id of the invoked job
InvokePersist(w) ==
    /\ run[w].pc = "invoke-persist"
    /\ LET id == Call(w).id
           d == run[w]
           e == updateData(setStatus(setResult(start(d, id), id, JobRef(d.invoked)),
                                     id, "delayed"))
       IN  /\ run' = [run EXCEPT ![w] = [e EXCEPT !.pc = "invoke-subscribe"]]
           /\ jobs' = [jobs EXCEPT ![d.job].data = Stored(e)]
           /\ idWrites' = Bump(idWrites, d.job, id)
    /\ UNCHANGED <<options, body, calls, moves, dispatches, lastMove, outcomes>>

\* first call: the data createJob returned, with the subscription pushed,
\* is written to the invoked job's data slot
InvokeSubscribe(w) ==
    /\ run[w].pc = "invoke-subscribe"
    /\ LET d == run[w]
           created == createJob(Call(w).workflow, Input, [job |-> d.job, step |-> Call(w).id])
           prepared == prepareData(created.data).data
           subscribed == [prepared EXCEPT
                             !.invocations = Append(@, [fnId |-> w, stepId |-> Call(w).id])]
       IN  /\ jobs' = [jobs EXCEPT ![d.invoked].data = ToJSON(subscribed),
                                   ![d.invoked].subscribed = TRUE]
           /\ run' = [run EXCEPT ![w].pc = "invoke-delay"]
    /\ UNCHANGED <<options, body, calls, moves, idWrites, dispatches, lastMove, outcomes>>

InvokeDelay(w) ==
    /\ run[w].pc = "invoke-delay"
    /\ LET d == run[w]
           id == Call(w).id
       IN  /\ jobs' = moveToDelayed(jobs, d.job, PollInterval)
           /\ run' = [run EXCEPT ![w] = Threw(d, id, "suspend")]
           /\ moves' = Bump(moves, d.job, id)
           /\ lastMove' = [lastMove EXCEPT ![d.job] = [step |-> id, n |-> dispatches[d.job]]]
    /\ UNCHANGED <<options, body, calls, idWrites, dispatches, outcomes>>

(***************************************************************************)
(* Two executeInvoke calls under Promise.all.  Both calls run up to their  *)
(* first await when the workflow function reaches the Promise.all; from    *)
(* there each goes on when its awaited queue operation is answered, in any *)
(* order.  The first rejection rejects the Promise.all and ends the        *)
(* workflow function; the other call goes on by itself.  What follows a    *)
(* rejection up to the parse in the finally block's updateData runs        *)
(* without a break, so the other call does not step in between.            *)
(***************************************************************************)
BranchId(w, b) == IF b = 1 THEN Call(w).id ELSE Call(w).also

\* executeInvoke up to its first await
enter(d, id) ==
    LET st == d.handles[id]
    IN  IF st.status = "completed"
        THEN [NoBranch EXCEPT !.pc = "done", !.value = st.result]
        ELSE IF st.status = "delayed" /\ st.result.t = "jobId"
        THEN [NoBranch EXCEPT !.pc = "get-job", !.invoked = st.result.v]
        ELSE [NoBranch EXCEPT !.pc = "create"]

ParStart(w) ==
    /\ AtStep(w, {"all"})
    /\ LET d == forStep(forStep(run[w], Call(w).id, "invoke-wait-for-result"),
                        Call(w).also, "invoke-wait-for-result")
       IN  run' = [run EXCEPT ![w] = [d EXCEPT !.pc = "all",
                                               !.par = <<enter(d, Call(w).id),
                                                         enter(d, Call(w).also)>>]]
    /\ UNCHANGED <<options, body, jobs, calls, moves, idWrites, dispatches, lastMove, outcomes>>

\* a call of the Promise.all can go on
AtBranch(w, b, pc) ==
    /\ run[w].pc \in {"all", "settle"}
    /\ run[w].par[b].pc = pc

\* a rejection: the first one ends the workflow function
reject(d, id, how) == IF d.pc = "all" THEN Threw(d, id, how) ELSE d

ParCreate(w, b) ==
    /\ AtBranch(w, b, "create")
    /\ FreeIds # {}
    /\ LET j == CHOOSE x \in FreeIds : \A y \in FreeIds : x <= y
       IN  /\ jobs' = [jobs EXCEPT ![j] = createJob(Call(w).workflow, Input,
                                                    [job |-> run[w].job, step |-> BranchId(w, b)])]
           /\ run' = [run EXCEPT ![w].par[b].pc = "persist", ![w].par[b].invoked = j]
    /\ UNCHANGED <<options, body, calls, moves, idWrites, dispatches, lastMove, outcomes>>

ParPersist(w, b) ==
    /\ AtBranch(w, b, "persist")
    /\ LET id == BranchId(w, b)
           d == run[w]
           e == updateData(setStatus(setResult(start(d, id), id, JobRef(d.par[b].invoked)),
                                     id, "delayed"))
       IN  /\ run' = [run EXCEPT ![w] = [e EXCEPT !.par[b].pc = "subscribe"]]
           /\ jobs' = [jobs EXCEPT ![d.job].data = Stored(e)]
           /\ idWrites' = Bump(idWrites, d.job, id)
    /\ UNCHANGED <<options, body, calls, moves, dispatches, lastMove, outcomes>>

ParSubscribe(w, b) ==
    /\ AtBranch(w, b, "subscribe")
    /\ LET d == run[w]
           id == BranchId(w, b)
           created == createJob(Call(w).workflow, Input, [job |-> d.job, step |-> id])
           subscribed == [prepareData(created.data).data EXCEPT
                             !.invocations = Append(@, [fnId |-> w, stepId |-> id])]
       IN  /\ jobs' = [jobs EXCEPT ![d.par[b].invoked].data = ToJSON(subscribed),
                                   ![d.par[b].invoked].subscribed = TRUE]
           /\ run' = [run EXCEPT ![w].par[b].pc = "delay"]
    /\ UNCHANGED <<options, body, calls, moves, idWrites, dispatches, lastMove, outcomes>>

\* job.delay of a first call: moveToDelayed fails when the job has left the
\* active list, and the catch block marks the step failed
ParDelay(w, b) ==
    /\ AtBranch(w, b, "delay")
    /\ LET d == run[w]
           id == BranchId(w, b)
       IN  IF jobs[d.job].state = "active"
           THEN /\ jobs' = moveToDelayed(jobs, d.job, PollInterval)
                /\ run' = [run EXCEPT ![w] = [reject(d, id, "suspend") EXCEPT !.par[b].pc = "done"]]
                /\ moves' = Bump(moves, d.job, id)
                /\ lastMove' = [lastMove EXCEPT ![d.job] = [step |-> id, n |-> dispatches[d.job]]]
           ELSE LET e == updateData(error(d, id))
                IN  /\ run' = [run EXCEPT ![w] = [reject(e, id, "error") EXCEPT !.par[b].pc = "done"]]
                    /\ jobs' = [jobs EXCEPT ![d.job].data = Stored(e)]
                    /\ UNCHANGED <<moves, lastMove>>
    /\ UNCHANGED <<options, body, calls, idWrites, dispatches, outcomes>>

ParGetJob(w, b) ==
    /\ AtBranch(w, b, "get-job")
    /\ run' = [run EXCEPT ![w].par[b].pc = "state",
                          ![w].par[b].snap = jobs[run[w].par[b].invoked].returnvalue]
    /\ UNCHANGED <<options, body, jobs, calls, moves, idWrites, dispatches, lastMove, outcomes>>

\* getState of the invoked job: completed, failed, or anything else
ParState(w, b) ==
    /\ AtBranch(w, b, "state")
    /\ LET d == run[w]
           id == BranchId(w, b)
           state == getState(d.par[b].invoked)
       IN  IF state = "completed"
           THEN LET e == updateData(complete(d, id, d.par[b].snap))
                IN  /\ run' = [run EXCEPT ![w] = [e EXCEPT !.par[b].pc = "done",
                                                           !.par[b].value = d.par[b].snap]]
                    /\ jobs' = [jobs EXCEPT ![d.job].data = Stored(e)]
           ELSE IF state = "failed"
           THEN LET e == updateData(error(d, id))
                IN  /\ run' = [run EXCEPT ![w] = [reject(e, id, "error") EXCEPT !.par[b].pc = "done"]]
                    /\ jobs' = [jobs EXCEPT ![d.job].data = Stored(e)]
           ELSE /\ run' = [run EXCEPT ![w].par[b].pc = "redelay"]
                /\ jobs' = jobs
    /\ UNCHANGED <<options, body, calls, moves, idWrites, dispatches, lastMove, outcomes>>

\* job.delay of a resumption: outside the try block, a failure of
\* moveToDelayed only rejects the call
ParRedelay(w, b) ==
    /\ AtBranch(w, b, "redelay")
    /\ LET d == run[w]
           id == BranchId(w, b)
       IN  IF jobs[d.job].state = "active"
           THEN /\ jobs' = moveToDelayed(jobs, d.job, PollInterval)
                /\ run' = [run EXCEPT ![w] = [reject(d, id, "suspend") EXCEPT !.par[b].pc = "done"]]
                /\ moves' = Bump(moves, d.job, id)
                /\ lastMove' = [lastMove EXCEPT ![d.job] = [step |-> id, n |-> dispatches[d.job]]]
           ELSE /\ run' = [run EXCEPT ![w] = [reject(d, id, "error") EXCEPT !.par[b].pc = "done"]]
                /\ UNCHANGED <<jobs, moves, lastMove>>
    /\ UNCHANGED <<options, body, calls, idWrites, dispatches, outcomes>>

\* both calls have returned: the Promise.all resolves
ParResolve(w) ==
    /\ run[w].pc = "all"
    /\ \A b \in 1..2 : run[w].par[b].pc = "done"
    /\ run' = [run EXCEPT ![w] = Returned(run[w], Call(w).id, TRUE, run[w].par[1].value)]
    /\ UNCHANGED <<options, body, jobs, calls, moves, idWrites, dispatches, lastMove, outcomes>>

(***************************************************************************)
(* ActiveJobExecutor.execute: the end of the workflow function, the        *)
(* finally block and the worker's handling of the outcome.                 *)
(***************************************************************************)
WorkflowReturns(w) ==
    /\ run[w].pc = "step"
    /\ run[w].ip > Len(body[w])
    /\ run' = [run EXCEPT ![w].data.metrics.completedAt = TRUE,
                          ![w].out = "value",
                          ![w].ni = 1,
                          ![w].pc = IF Len(run[w].data.invocations) > 0
                                    THEN "notify" ELSE "finally"]
    /\ UNCHANGED <<options, body, jobs, calls, moves, idWrites, dispatches, lastMove, outcomes>>

\* the delayed jobs of the invoker whose step waits for job self
Waiting(inv, self) ==
    {j \in JobIds :
        /\ jobs[j].wf = inv.fnId
        /\ jobs[j].state = "delayed"
        /\ LET js == prepareData(jobs[j].data).data
           IN  /\ inv.stepId \in DOMAIN js.steps
               /\ js.steps[inv.stepId].status = "delayed"
               /\ js.steps[inv.stepId].result = JobRef(self)}

NextInvocation(d) ==
    IF d.ni < Len(d.data.invocations)
    THEN [d EXCEPT !.ni = @ + 1, !.pc = "notify", !.target = 0]
    ELSE [d EXCEPT !.pc = "finally", !.target = 0]

\* an error of the loop body that leaves the loop and the try block
rethrown(d) ==
    [d EXCEPT !.out = "error", !.pc = "finally", !.target = 0, !.errorsLogged = @ + 1]

\* the catch block inside the loop: the error is logged and the loop goes on
logAndContinue(d) == [NextInvocation(d) EXCEPT !.errorsLogged = @ + 1]

\* getDelayed finds the job waiting for this one
NotifyFound(w) ==
    /\ run[w].pc = "notify"
    /\ LET d == run[w]
           inv == d.data.invocations[d.ni]
       IN  /\ Registered(inv.fnId)
           /\ \E j \in Waiting(inv, d.job) :
                 run' = [run EXCEPT ![w].pc = "promote", ![w].target = j]
    /\ UNCHANGED <<options, body, jobs, calls, moves, idWrites, dispatches, lastMove, outcomes>>

\* getDelayed finds no job waiting for this one
NotifyNone(w) ==
    /\ run[w].pc = "notify"
    /\ LET d == run[w]
           inv == d.data.invocations[d.ni]
       IN  /\ Registered(inv.fnId)
           /\ Waiting(inv, d.job) = {}
           /\ run' = [run EXCEPT ![w] = NextInvocation(d)]
    /\ UNCHANGED <<options, body, jobs, calls, moves, idWrites, dispatches, lastMove, outcomes>>

\* waitingJob.promote(): an error (the job is no longer delayed) is logged
NotifyPromote(w) ==
    /\ run[w].pc = "promote"
    /\ LET d == run[w]
           ok == jobs[d.target].state = "delayed"
       IN  /\ jobs' = IF ok
                      THEN [jobs EXCEPT ![d.target].state = "waiting",
                                        ![d.target].promotedBy = d.job]
                      ELSE jobs
           /\ run' = [run EXCEPT ![w] = IF ok
                                        THEN [NextInvocation(d) EXCEPT !.promoted = @ \cup {d.target}]
                                        ELSE logAndContinue(d)]
    /\ UNCHANGED <<options, body, calls, moves, idWrites, dispatches, lastMove, outcomes>>

\* getDelayed is rejected by the queue
NotifyFails(w) ==
    /\ run[w].pc = "notify"
    /\ Registered(run[w].data.invocations[run[w].ni].fnId)
    /\ run' = [run EXCEPT ![w] = logAndContinue(run[w])]
    /\ UNCHANGED <<options, body, jobs, calls, moves, idWrites, dispatches, lastMove, outcomes>>

Finally(w) ==
    /\ run[w].pc = "finally"
    /\ LET e == updateData(finish(run[w]))
       IN  /\ run' = [run EXCEPT ![w] = [e EXCEPT !.pc = "settle"]]
           /\ jobs' = [jobs EXCEPT ![e.job].data = Stored(e)]
    /\ UNCHANGED <<options, body, calls, moves, idWrites, dispatches, lastMove, outcomes>>

\* the worker: a returned value completes the job, DelayedError leaves it
\* where moveToDelayed put it, any other error fails or retries it.
settle(job, out, value) ==
    CASE out = "value" -> [job EXCEPT !.state = "completed", !.returnvalue = value]
      [] out = "suspend" -> job
      [] out = "error" ->
            IF job.attemptsMade + 1 < job.attempts
            THEN [job EXCEPT !.state = "waiting", !.attemptsMade = @ + 1]
            ELSE [job EXCEPT !.state = "failed", !.attemptsMade = @ + 1]
      [] OTHER -> [job EXCEPT !.state = "failed"]

Settle(w) ==
    /\ run[w].pc = "settle"
    /\ \A b \in 1..2 : run[w].par[b].pc \in {"-", "done"}
    /\ jobs' = [jobs EXCEPT ![run[w].job] = settle(@, run[w].out, run[w].value)]
    /\ run' = [run EXCEPT ![w] = Idle]
    /\ UNCHANGED <<options, body, calls, moves, idWrites, dispatches, lastMove, outcomes>>

(***************************************************************************)
(* The queue: a delay runs out.                                            *)
(***************************************************************************)
DelayElapsed(j) ==
    /\ jobs[j].state = "delayed"
    /\ jobs' = [jobs EXCEPT ![j].state = "waiting"]
    /\ UNCHANGED <<options, body, run, calls, moves, idWrites, dispatches, lastMove, outcomes>>

Next ==
    \/ \E w \in Wfs :
          \/ Fetch(w)
          \/ RunSkip(w) \/ RunOk(w) \/ RunThrow(w) \/ RunUnrecoverable(w)
          \/ SleepResume(w) \/ SleepFirst(w) \/ SleepPriority(w) \/ SleepDelay(w)
          \/ RepeatSkip(w) \/ RepeatInit(w) \/ RepeatResume(w) \/ RepeatExhausted(w)
          \/ RepeatTruthy(w) \/ RepeatFalsy(w) \/ RepeatThrow(w) \/ RepeatDelay(w)
          \/ InvokeSkip(w) \/ InvokeGetJob(w) \/ InvokeCompleted(w) \/ InvokeFailed(w)
          \/ InvokePending(w) \/ InvokeRedelay(w) \/ InvokeCreate(w) \/ InvokePersist(w)
          \/ InvokeSubscribe(w) \/ InvokeDelay(w) \/ InvokeUnknown(w)
          \/ WorkflowReturns(w) \/ NotifyFound(w) \/ NotifyNone(w) \/ NotifyPromote(w)
          \/ NotifyFails(w)
          \/ Finally(w) \/ Settle(w)
    \/ \E j \in JobIds : DelayElapsed(j)

Spec == Init /\ [][Next]_vars

(***************************************************************************)
(* The same program with default job options given.                        *)
(***************************************************************************)
InitCfg ==
    /\ options = SomeOptions
    /\ \E ba \in CallerBodies, bb \in TargetBodies :
          /\ HasInvoke(ba) \/ bb = <<RunCall("b")>>
          /\ body = [w \in Wfs |-> IF w = "A" THEN ba ELSE bb]
    /\ jobs = [j \in JobIds |-> IF j = 1 THEN createJob("A", Input, [job |-> 0, step |-> "-"])
                                ELSE NoJob]
    /\ run = [w \in Wfs |-> Idle]
    /\ calls = [j \in JobIds |-> [s \in StepIds |-> 0]]
    /\ moves = [j \in JobIds |-> [s \in StepIds |-> 0]]
    /\ idWrites = [j \in JobIds |-> [s \in StepIds |-> 0]]
    /\ dispatches = [j \in JobIds |-> 0]
    /\ lastMove = [j \in JobIds |-> [step |-> "-", n |-> 0]]
    /\ outcomes = [j \in JobIds |-> [s \in StepIds |-> NoOutcomes]]

SpecCfg == InitCfg /\ [][Next]_vars

(***************************************************************************)
(* The parallel invocation taken alone: the caller's function awaits two   *)
(* invokes of B under Promise.all, and B's function is one run step whose  *)
(* user function returns.                                                  *)
(***************************************************************************)
InitPar ==
    /\ options = NoOptions
    /\ body = [w \in Wfs |-> IF w = "A" THEN ParallelBody ELSE <<RunCall("b")>>]
    /\ jobs = [j \in JobIds |-> IF j = 1 THEN createJob("A", Input, [job |-> 0, step |-> "-"])
                                ELSE NoJob]
    /\ run = [w \in Wfs |-> Idle]
    /\ calls = [j \in JobIds |-> [s \in StepIds |-> 0]]
    /\ moves = [j \in JobIds |-> [s \in StepIds |-> 0]]
    /\ idWrites = [j \in JobIds |-> [s \in StepIds |-> 0]]
    /\ dispatches = [j \in JobIds |-> 0]
    /\ lastMove = [j \in JobIds |-> [step |-> "-", n |-> 0]]
    /\ outcomes = [j \in JobIds |-> [s \in StepIds |-> NoOutcomes]]

NextPar ==
    \/ \E w \in Wfs :
          \/ Fetch(w) \/ RunOk(w)
          \/ ParStart(w) \/ ParResolve(w)
          \/ \E b \in 1..2 :
                \/ ParCreate(w, b) \/ ParPersist(w, b) \/ ParSubscribe(w, b) \/ ParDelay(w, b)
                \/ ParGetJob(w, b) \/ ParState(w, b) \/ ParRedelay(w, b)
          \/ WorkflowReturns(w) \/ NotifyFound(w) \/ NotifyNone(w) \/ NotifyPromote(w)
          \/ Finally(w) \/ Settle(w)
    \/ \E j \in JobIds : DelayElapsed(j)

SpecPar == InitPar /\ [][NextPar]_vars

(***************************************************************************)
(* JobStateManager under a workflow function that is free in the steps it  *)
(* calls: in every dispatch it asks for any step id with any type, in any  *)
(* order.  body["A"] is the list of the calls it has made so far, over all *)
(* dispatches of its job.                                                  *)
(***************************************************************************)
MaxCalls == 4

FreeIdsOfSteps == {"a", "s"}

FreeKinds == {"run", "sleep"}

InitSteps ==
    /\ options = NoOptions
    /\ body = [w \in Wfs |-> <<>>]
    /\ jobs = [j \in JobIds |-> IF j = 1 THEN createJob("A", Input, [job |-> 0, step |-> "-"])
                                ELSE NoJob]
    /\ run = [w \in Wfs |-> Idle]
    /\ calls = [j \in JobIds |-> [s \in StepIds |-> 0]]
    /\ moves = [j \in JobIds |-> [s \in StepIds |-> 0]]
    /\ idWrites = [j \in JobIds |-> [s \in StepIds |-> 0]]
    /\ dispatches = [j \in JobIds |-> 0]
    /\ lastMove = [j \in JobIds |-> [step |-> "-", n |-> 0]]
    /\ outcomes = [j \in JobIds |-> [s \in StepIds |-> NoOutcomes]]

\* JobStateManager.init at the start of a dispatch
StepsBegin ==
    /\ run["A"].pc = "idle"
    /\ jobs[1].state = "waiting"
    /\ dispatches[1] < MaxDispatches
    /\ run' = [run EXCEPT !["A"] =
                  [Idle EXCEPT !.job = 1, !.pc = "fn",
                               !.data = [prepareData(jobs[1].data).data
                                            EXCEPT !.source = parseSourceData("A", @)]]]
    /\ jobs' = [jobs EXCEPT ![1].state = "active"]
    /\ dispatches' = [dispatches EXCEPT ![1] = @ + 1]
    /\ UNCHANGED <<options, body, calls, moves, idWrites, lastMove, outcomes>>

\* a primitive asks for the handle of a step
StepsForStep ==
    /\ run["A"].pc = "fn"
    /\ Len(body["A"]) < MaxCalls
    /\ \E id \in FreeIdsOfSteps, kind \in FreeKinds :
          /\ run' = [run EXCEPT !["A"] = forStep(@, id, typeOf(kind))]
          /\ body' = [body EXCEPT !["A"] = Append(@, [RunCall(id) EXCEPT !.kind = kind])]
    /\ UNCHANGED <<options, jobs, calls, moves, idWrites, dispatches, lastMove, outcomes>>

\* a primitive completes a step it holds and stores the state
StepsComplete ==
    /\ run["A"].pc = "fn"
    /\ \E id \in DOMAIN run["A"].handles :
          /\ run["A"].handles[id].status # "completed"
          /\ LET e == updateData(complete(run["A"], id, True))
             IN  /\ run' = [run EXCEPT !["A"] = e]
                 /\ jobs' = [jobs EXCEPT ![1].data = Stored(e)]
    /\ UNCHANGED <<options, body, calls, moves, idWrites, dispatches, lastMove, outcomes>>

\* the dispatch ends (finish and updateData of the finally block) and the
\* job is left for another dispatch
StepsEnd ==
    /\ run["A"].pc = "fn"
    /\ LET e == updateData(finish(run["A"]))
       IN  /\ jobs' = [jobs EXCEPT ![1].data = Stored(e), ![1].state = "waiting"]
           /\ run' = [run EXCEPT !["A"] = Idle]
    /\ UNCHANGED <<options, body, calls, moves, idWrites, dispatches, lastMove, outcomes>>

NextSteps == StepsBegin \/ StepsForStep \/ StepsComplete \/ StepsEnd

SpecSteps == InitSteps /\ [][NextSteps]_vars

(***************************************************************************)
(* What the claims speak of.                                               *)
(***************************************************************************)
Kinds == {"run", "sleep", "sleep-until", "repeat", "invoke"}

\* the step ids of job j's workflow that are called with one of the kinds
StepsOf(j, kinds) ==
    IF jobs[j].state = "none" THEN {}
    ELSE {body[jobs[j].wf][k].id : k \in {n \in 1..Len(body[jobs[j].wf]) :
                                            body[jobs[j].wf][n].kind \in kinds}}

\* the handle a primitive entered at the current call starts from
Entered(w) == forStep(run[w], Call(w).id, typeOf(Call(w).kind)).handles[Call(w).id]

\* the in-memory JobState of a dispatch, the state of its step handles included
InMemory(d) == [d.data EXCEPT !.steps = d.handles @@ @]

\* the jobs enqueued by step s of job j
Enqueued(j, s) == {k \in JobIds : jobs[k].state # "none" /\ jobs[k].by = [job |-> j, step |-> s]}

(***************************************************************************)
(* C1: over all dispatches of a job, the user function of a run step       *)
(* returns successfully at most once.                                      *)
(***************************************************************************)
C1_RunSucceedsOnce ==
    \A j \in JobIds : \A s \in StepsOf(j, {"run"}) : calls[j][s] <= 1

(***************************************************************************)
(* C2: a primitive entered on a completed step returns {success, ran:      *)
(* false, result: the stored result}; it does not run user code, move the  *)
(* job to the delayed set or raise Suspend.                                *)
(***************************************************************************)
C2_CompletedIsSkipped ==
    [][\A w \in Wfs :
          (AtStep(w, Kinds) /\ Entered(w).status = "completed" /\ run'[w] # run[w])
          => /\ run'[w].pc = "step"
             /\ run'[w].ip = run[w].ip + 1
             /\ run'[w].ret = [step |-> Call(w).id, how |-> "returned", ran |-> FALSE,
                               result |-> Entered(w).result]
             /\ jobs'[run[w].job] = jobs[run[w].job]]_vars

(***************************************************************************)
(* C3: a step stored as completed with result r is stored as completed     *)
(* with result r in every JobState stored later for the job.               *)
(***************************************************************************)
C3_CompletedIsTerminal ==
    [][\A j \in JobIds : \A s \in DOMAIN jobs[j].data.steps :
          jobs[j].data.steps[s].status = "completed"
          => /\ s \in DOMAIN jobs'[j].data.steps
             /\ jobs'[j].data.steps[s].status = "completed"
             /\ jobs'[j].data.steps[s].result = jobs[j].data.steps[s].result]_vars

(***************************************************************************)
(* C4: the dispatch that follows the first call of sleep on step s         *)
(* completes s with result true and goes on with the step after s: when    *)
(* that dispatch ends, s is completed.                                     *)
(***************************************************************************)
C4_SleepRoundTrip ==
    \A w \in Wfs :
        (run[w].pc = "settle" /\ run[w].woke \in StepsOf(run[w].job, {"sleep", "sleep-until"}))
        => /\ run[w].woke \in DOMAIN run[w].handles
           /\ run[w].handles[run[w].woke].status = "completed"
           /\ run[w].handles[run[w].woke].result = True

(***************************************************************************)
(* C5: each sleep step moves the job to the delayed set at most once over  *)
(* the life of the job (so that a finite sequence of sleeps ends).         *)
(***************************************************************************)
C5_SleepMovesOnce ==
    \A j \in JobIds : \A s \in StepsOf(j, {"sleep", "sleep-until"}) : moves[j][s] <= 1

(***************************************************************************)
(* C6: when a primitive moves the job to the delayed set, the data already *)
(* written to the job holds the step as delayed, with its protocol value.  *)
(***************************************************************************)
C6_PersistBeforeSuspend ==
    \A w \in Wfs :
        run[w].pc \in {"sleep-delay", "repeat-delay", "invoke-delay", "invoke-redelay"}
        => LET stored == jobs[run[w].job].data.steps
               id == Call(w).id
           IN  /\ id \in DOMAIN stored
               /\ stored[id].status = "delayed"
               /\ Call(w).kind = "invoke" => stored[id].result.t = "jobId"
               /\ Call(w).kind = "repeat" =>
                     stored[id].result.t = "repeat" /\ stored[id].result.needsDelay

(***************************************************************************)
(* C7: when a primitive hands control back, by returning or by raising     *)
(* Suspend, the stored JobState equals the in-memory JobState, the step    *)
(* just operated on included.                                              *)
(***************************************************************************)
C7_StoredMatchesMemory ==
    \A w \in Wfs :
        (run[w].pc \in {"step", "finally"} /\ run[w].ret.how \in {"returned", "suspend"}
            /\ run[w].out \in {"none", "suspend"})
        => jobs[run[w].job].data = ToJSON(InMemory(run[w]))

(***************************************************************************)
(* C8: for every invoke step, result.jobId is written once and one job is  *)
(* enqueued in the target workflow, over all dispatches of the job.        *)
(***************************************************************************)
C8_InvokeEnqueuesOnce ==
    \A j \in JobIds : \A s \in StepsOf(j, {"invoke"}) :
        idWrites[j][s] <= 1 /\ Cardinality(Enqueued(j, s)) <= 1

(***************************************************************************)
(* C9: a resumed invoke step that finds the invoked job completed becomes  *)
(* completed with the invoked job's return value, is stored so, and        *)
(* invoke returns {success, ran: true, result: that return value}.         *)
(***************************************************************************)
C9_InvokeReturnsValue ==
    \A w \in Wfs :
        (run[w].pc = "step" /\ run[w].ret.how = "returned" /\ run[w].ret.ran
            /\ run[w].ret.step \in StepsOf(run[w].job, {"invoke"}))
        => LET id == run[w].ret.step
               value == jobs[run[w].invoked].returnvalue
           IN  /\ run[w].ret.result = value
               /\ run[w].handles[id].status = "completed"
               /\ run[w].handles[id].result = value
               /\ id \in DOMAIN jobs[run[w].job].data.steps
               /\ jobs[run[w].job].data.steps[id].status = "completed"
               /\ jobs[run[w].job].data.steps[id].result = value

(***************************************************************************)
(* C10: once the invoked job has completed or failed, the caller's next    *)
(* dispatch takes the waiting invoke step out of delayed, to completed or  *)
(* to failed.                                                              *)
(***************************************************************************)
C10_InvokeLeavesDelayed ==
    \A w \in Wfs :
        run[w].pc = "settle"
        => \A s \in run[w].due :
              /\ s \in DOMAIN run[w].handles
              /\ run[w].handles[s].status \in {"completed", "failed"}

\* the subscription the invoker of job j appends to j's invocations
Subscription(j) == [fnId |-> jobs[jobs[j].by.job].wf, stepId |-> jobs[j].by.step]

\* the dispatches whose workflow function has returned and whose notification is over
Notified == {w \in Wfs : run[w].out = "value" /\ run[w].pc \in {"finally", "settle"}}

(***************************************************************************)
(* C11: when the workflow function of job j has returned, the notification *)
(* has promoted, for every subscription in j's invocations list, the       *)
(* caller job that waits for j.                                            *)
(***************************************************************************)
C11_SubscribersPromoted ==
    \A w \in Notified :
        \A k \in 1..Len(run[w].data.invocations) :
            jobs[run[w].job].by.job \in run[w].promoted

(***************************************************************************)
(* C12: the dispatch of the caller that a promotion by job j triggers      *)
(* finds j completed and completes the invoke step waiting for j, without  *)
(* moving the caller to the delayed set again.                             *)
(***************************************************************************)
C12_PromotionShortCutsPoll ==
    \A w \in Wfs :
        (run[w].pc = "settle" /\ run[w].promoter # 0)
        => LET s == jobs[run[w].promoter].by.step
           IN  /\ s \in DOMAIN run[w].handles
               /\ run[w].handles[s].status = "completed"
               /\ lastMove[run[w].job] # [step |-> s, n |-> dispatches[run[w].job]]

(***************************************************************************)
(* C13: once the invoker has written its subscription to the invoked job,  *)
(* the invocations list the invoked job's executor reads when the workflow *)
(* function returns holds that subscription.                               *)
(***************************************************************************)
C13_SubscriptionNotLost ==
    [][\A w \in Wfs :
          (/\ run[w].pc = "step"
           /\ run[w].out # "value"
           /\ run'[w].out = "value"
           /\ jobs[run[w].job].subscribed)
          => \E k \in 1..Len(run[w].data.invocations) :
                run[w].data.invocations[k] = Subscription(run[w].job)]_vars

\* the dispatches in which executeInvoke has just found the invoked job failed
FoundFailed ==
    {w \in Wfs : /\ run[w].pc = "finally"
                 /\ run[w].ret.how = "error"
                 /\ run[w].ret.step \in StepsOf(run[w].job, {"invoke"})
                 /\ run[w].invoked # 0
                 /\ jobs[run[w].invoked].state = "failed"}

(***************************************************************************)
(* C14: a resumed invoke step that finds the invoked job failed becomes    *)
(* failed with the error recorded, is stored so, and an error, not         *)
(* Suspend, is raised; the caller is not moved to the delayed set.         *)
(***************************************************************************)
C14_InvokedFailureRecorded ==
    \A w \in FoundFailed :
        LET id == run[w].ret.step
            stored == jobs[run[w].job].data.steps
        IN  /\ run[w].handles[id].status = "failed"
            /\ id \in DOMAIN stored
            /\ stored[id].status = "failed"
            /\ stored[id].error # "none"
            /\ run[w].out = "error"
            /\ jobs[run[w].job].state = "active"
            /\ lastMove[run[w].job].n # dispatches[run[w].job]

\* the invoke steps of job j whose target is not registered with the client
UnknownInvokes(j) ==
    IF jobs[j].state = "none" THEN {}
    ELSE {body[jobs[j].wf][k].id : k \in {n \in 1..Len(body[jobs[j].wf]) :
                                            /\ body[jobs[j].wf][n].kind = "invoke"
                                            /\ body[jobs[j].wf][n].workflow \notin Wfs}}

(***************************************************************************)
(* C15: invoke of a workflow that is not registered raises an error: no    *)
(* job is enqueued, no jobId is written, the caller is not moved to the    *)
(* delayed set and what leaves the primitive is an error, not Suspend.     *)
(***************************************************************************)
C15_UnknownWorkflowRaises ==
    \A j \in JobIds : \A s \in UnknownInvokes(j) :
        /\ \A k \in JobIds : jobs[k].by # [job |-> j, step |-> s]
        /\ idWrites[j][s] = 0
        /\ moves[j][s] = 0
        /\ \A w \in Wfs :
              (run[w].job = j /\ run[w].pc \notin {"idle", "step"})
              => /\ run[w].pc \in {"finally", "settle"}
                 /\ run[w].ret.step = s
                 /\ run[w].ret.how = "error"
                 /\ run[w].out = "error"
                 /\ jobs[j].state = "active"

\* the call of invoke on an unregistered workflow has raised its error
C15_Witness ==
    \E w \in Wfs :
        /\ run[w].pc = "finally"
        /\ run[w].ret.step \in UnknownInvokes(run[w].job)
        /\ run[w].ret.how = "error"
        /\ run[w].handles[run[w].ret.step].status = "failed"

\* the calls of the run function of repeat step s of job j, however they ended
Invocations(j, s) == outcomes[j][s].truthy + outcomes[j][s].falsy + outcomes[j][s].thrown

\* the repeat calls of job j's workflow function
RepeatCalls(j) ==
    IF jobs[j].state = "none" THEN {}
    ELSE {body[jobs[j].wf][k] : k \in {n \in 1..Len(body[jobs[j].wf]) :
                                          body[jobs[j].wf][n].kind = "repeat"}}

(***************************************************************************)
(* C16: the run function of a repeat step with limit N is called at most   *)
(* N times over all dispatches of the job.                                 *)
(***************************************************************************)
C16_RepeatWithinLimit ==
    \A j \in JobIds : \A c \in RepeatCalls(j) : Invocations(j, c.id) <= c.limit

\* the repeat calls of job j that are paced (every > 0)
PacedCalls(j) == {c \in RepeatCalls(j) : c.every > 0}

(***************************************************************************)
(* C17: for a repeat step with every > 0 and limit N there is one move to  *)
(* the delayed set between two consecutive unsuccessful attempts and none  *)
(* after the N-th attempt, and the dispatch that follows such a move makes *)
(* exactly one attempt.                                                    *)
(***************************************************************************)
C17_RepeatPacing ==
    \A j \in JobIds : \A c \in PacedCalls(j) :
        /\ moves[j][c.id] <= outcomes[j][c.id].falsy
        /\ moves[j][c.id] >= outcomes[j][c.id].falsy - 1
        /\ moves[j][c.id] <= c.limit - 1
        /\ \A w \in Wfs :
              (run[w].job = j /\ run[w].pc = "settle" /\ run[w].woke = c.id)
              => run[w].tries = 1

\* the run function of repeat call c of job j has returned falsy limit times
\* and never truthy
Exhausted(j, c) == outcomes[j][c.id].falsy >= c.limit /\ outcomes[j][c.id].truthy = 0

(***************************************************************************)
(* C18: when the run function of a repeat step with limit N has returned   *)
(* falsy N times, the step is completed with result false when the         *)
(* dispatch ends, repeat returns false and the step moves the job to the   *)
(* delayed set no more; with a limit <= 0 the function is never called.    *)
(***************************************************************************)
C18_RepeatExhaustion ==
    \A j \in JobIds : \A c \in RepeatCalls(j) :
        /\ moves[j][c.id] <= IF c.limit > 0 THEN c.limit - 1 ELSE 0
        /\ c.limit <= 0 => Invocations(j, c.id) = 0
        /\ \A w \in Wfs :
              (run[w].job = j /\ Exhausted(j, c))
              => /\ (run[w].ret.step = c.id /\ run[w].ret.how = "returned" /\ run[w].ret.ran)
                       => run[w].ret.result = False
                 /\ (run[w].pc = "settle" /\ run[w].tries > 0
                        /\ run[w].ret # [step |-> c.id, how |-> "error", ran |-> TRUE, result |-> Null])
                       => /\ c.id \in DOMAIN run[w].handles
                          /\ run[w].handles[c.id].status = "completed"
                          /\ run[w].handles[c.id].result = False

(***************************************************************************)
(* C19: the attempt of a repeat step whose run function returns a truthy   *)
(* value v completes the step with result v and returns v, and the run     *)
(* function of that step is not called again, in this or a later dispatch. *)
(***************************************************************************)
C19_RepeatSuccess ==
    [][\A j \in JobIds : \A c \in RepeatCalls(j) :
          /\ outcomes[j][c.id].truthy >= 1 => outcomes'[j][c.id] = outcomes[j][c.id]
          /\ outcomes'[j][c.id].truthy > outcomes[j][c.id].truthy
             => \E w \in Wfs :
                   /\ run'[w].job = j
                   /\ run'[w].ret.step = c.id
                   /\ run'[w].ret.how = "returned"
                   /\ run'[w].ret.ran
                   /\ run'[w].ret.result.t = "val"
                   /\ run'[w].handles[c.id].status = "completed"
                   /\ run'[w].handles[c.id].result = run'[w].ret.result]_vars

\* the steps of job j that are no suspension points: run steps and repeat
\* steps called without every
Unpaced(j) == StepsOf(j, {"run"}) \cup {c.id : c \in RepeatCalls(j) \ PacedCalls(j)}

\* the steps of job j that may suspend it
SuspensionPoints(j) ==
    StepsOf(j, {"sleep", "sleep-until", "invoke"}) \cup {c.id : c \in PacedCalls(j)}

(***************************************************************************)
(* C20: a run step and a repeat step called without every (or with every   *)
(* 0) never move the job to the delayed set and never raise Suspend; every *)
(* move to the delayed set and every Suspend comes from a sleep, a         *)
(* sleepUntil, a repeat with every > 0 or an invoke.                       *)
(***************************************************************************)
C20_SuspensionPoints ==
    \A j \in JobIds :
        /\ \A s \in Unpaced(j) : moves[j][s] = 0
        /\ \A s \in StepIds : moves[j][s] > 0 => s \in SuspensionPoints(j)
        /\ \A w \in Wfs :
              (run[w].job = j /\ run[w].ret.how = "suspend")
              => /\ run[w].ret.step \notin Unpaced(j)
                 /\ run[w].ret.step \in SuspensionPoints(j)

\* a repeat step without every has made two falsy attempts in one dispatch
\* and returned false without a move to the delayed set
C20_Witness ==
    /\ \E j \in JobIds : \E c \in RepeatCalls(j) : \E w \in Wfs :
          /\ c.every = 0
          /\ outcomes[j][c.id].falsy >= 2
          /\ dispatches[j] = 1
          /\ run[w].job = j
          /\ run[w].ret = [step |-> c.id, how |-> "returned", ran |-> TRUE, result |-> False]

\* the errors bullmq treats specially: DelayedError and UnrecoverableError
Sentinels == {"suspend", "unrecoverable"}

(***************************************************************************)
(* C21: when the workflow function exits with Suspend or Unrecoverable,    *)
(* the executor hands the same sentinel to the queue: the dispatch is not  *)
(* reported as a completion with a return value, completedAt is not set    *)
(* and the invocation notification does not run.                           *)
(***************************************************************************)
C21_SentinelsRethrown ==
    [][\A w \in Wfs :
          run[w].ret.how \in Sentinels
          => /\ run[w].out = run[w].ret.how
             /\ ~run[w].data.metrics.completedAt
             /\ run[w].pc \in {"finally", "settle"}
             /\ run[w].promoted = {}
             /\ run'[w].pc \in {"finally", "settle", "idle"}
             /\ run'[w].pc = "idle"
                => /\ jobs'[run[w].job].state # "completed"
                   /\ jobs'[run[w].job].returnvalue = jobs[run[w].job].returnvalue
                   /\ ~jobs'[run[w].job].data.metrics.completedAt
                   /\ run[w].out = "suspend" => jobs'[run[w].job] = jobs[run[w].job]
                   /\ run[w].out = "unrecoverable" => jobs'[run[w].job].state = "failed"]_vars

\* a dispatch that ended with Suspend was followed by one that ends with
\* Unrecoverable, which is about to reach the queue
C21_Witness ==
    \E w \in Wfs :
        /\ run[w].pc = "settle"
        /\ run[w].out = "unrecoverable"
        /\ dispatches[run[w].job] >= 2
        /\ \E s \in StepIds : moves[run[w].job][s] > 0

(***************************************************************************)
(* C22: on every exit path of a dispatch, when the outcome is about to     *)
(* reach the queue, the state of every step handle used in the dispatch is *)
(* in JobState.steps and the JobState is persisted: the stored record      *)
(* holds every step mutation of the dispatch.                              *)
(***************************************************************************)
C22_DispatchEndPersisted ==
    \A w \in Wfs :
        run[w].pc = "settle"
        => /\ run[w].data.steps = run[w].handles
           /\ jobs[run[w].job].data = run[w].data

(***************************************************************************)
(* JobStateManager and ExecutionContext taken alone, on raw job data.      *)
(*                                                                         *)
(* Raw data is a scalar or an object.  Of an object the model keeps what   *)
(* JobStateSchema looks at: the value of __openqueue, the value of         *)
(* __source (a sequence: empty when the key is absent), whether __steps    *)
(* and __invocations are given, and whether there are keys the schema does *)
(* not know.                                                               *)
(***************************************************************************)
RawObject(oq, src, steps, inv, extra) ==
    [obj |-> TRUE, oq |-> oq, source |-> src, steps |-> steps, invocations |-> inv,
     extra |-> extra]

\* a string, a number
RawScalar ==
    [obj |-> FALSE, oq |-> "absent", source |-> <<>>, steps |-> "absent",
     invocations |-> "absent", extra |-> FALSE]

\* a user payload that carries the marker: { __openqueue: true, ... }
Marked == RawObject("true", <<>>, "absent", "absent", TRUE)

\* a user payload without the marker
Plain == RawObject("absent", <<>>, "absent", "absent", TRUE)

RawInputs ==
    {RawScalar} \cup
    {RawObject(oq, src, steps, inv, extra) :
        oq \in {"absent", "true", "false", "truthy"},
        src \in {<<>>, <<RawScalar>>, <<Plain>>, <<Marked>>},
        steps \in {"absent", "empty", "partial", "full", "bad"},
        inv \in {"absent", "none", "one"},
        extra \in BOOLEAN}

\* a safeParse that never succeeds
neverParses(x) == FALSE

\* JobStateSchema.safeParse(x).success: __openqueue is a boolean and
\* __steps a record of step states; every other key has a default
parses(x) ==
    /\ x.obj
    /\ x.oq \in {"true", "false"}
    /\ x.steps \in {"empty", "partial", "full"}

\* the data JobStateSchema.parse returns: defaults filled in (a step given
\* without status gets one, __invocations becomes []), unknown keys dropped
parsed(x) ==
    [x EXCEPT !.steps = IF @ = "partial" THEN "full" ELSE @,
              !.invocations = IF @ = "absent" THEN "none" ELSE @,
              !.extra = FALSE]

\* JobStateManager.prepareData (static), on raw data
prepare(x) ==
    IF parses(x)
    THEN [wasPrepared |-> TRUE, data |-> parsed(x)]
    ELSE [wasPrepared |-> FALSE,
          data |-> parsed(RawObject("true", <<x>>, "empty", "none", FALSE))]

\* a check of the marker that never finds it
neverMarked(src) == FALSE

\* parsed.__source?.["__openqueue"] is truthy
hasMarker(src) == Len(src) = 1 /\ src[1].obj /\ src[1].oq \in {"true", "truthy"}

\* JobStateManager.updateData on this.data = mem: what it throws, what
\* this.data becomes, and what the job's data slot holds afterwards
persist(mem, slot) ==
    IF ~parses(mem)
    THEN [thrown |-> "ZodError", mem |-> mem, slot |-> slot]
    ELSE IF hasMarker(parsed(mem).source)
    THEN [thrown |-> "InvalidSource", mem |-> mem, slot |-> slot]
    ELSE [thrown |-> "none", mem |-> parsed(mem), slot |-> parsed(mem)]

\* a readiness check that lets everything pass
alwaysReady(bound) == TRUE

\* ExecutionContext.checkIsReady does not throw
isReady(bound) == bound

Methods == {"run", "sleep", "sleepUntil", "repeat", "invoke", "invokeWorkflow"}

\* a call of a step method: NotReady from checkIsReady; past it, a bound
\* executor is called, a null one gives undefined for sleep (optional
\* chaining) and a TypeError elsewhere
stepCall(bound, method) ==
    IF ~isReady(bound) THEN "NotReady"
    ELSE IF bound THEN "delegated"
    ELSE IF method = "sleep" THEN "undefined"
    ELSE "TypeError"

NoData == RawObject("absent", <<>>, "absent", "absent", FALSE)

Client ==
    [pc |-> "client", x |-> NoData, first |-> [wasPrepared |-> FALSE, data |-> NoData],
     second |-> [wasPrepared |-> FALSE, data |-> NoData], mem |-> NoData, before |-> NoData,
     thrown |-> "none", bound |-> FALSE, method |-> "-", outcome |-> "-"]

InitApi ==
    /\ options = NoOptions
    /\ body = [w \in Wfs |-> <<>>]
    /\ \E x \in RawInputs : run = [Client EXCEPT !.x = x]
    /\ jobs = [j \in JobIds |-> NoJob]
    /\ calls = [j \in JobIds |-> [s \in StepIds |-> 0]]
    /\ moves = [j \in JobIds |-> [s \in StepIds |-> 0]]
    /\ idWrites = [j \in JobIds |-> [s \in StepIds |-> 0]]
    /\ dispatches = [j \in JobIds |-> 0]
    /\ lastMove = [j \in JobIds |-> [step |-> "-", n |-> 0]]
    /\ outcomes = [j \in JobIds |-> [s \in StepIds |-> NoOutcomes]]

\* Workflow.createJob with a schema that accepts any data: the prepared
\* data is added to the queue
ApiCreateJob ==
    /\ run.pc = "client"
    /\ LET p == prepare(run.x)
       IN  /\ run' = [run EXCEPT !.pc = "queued", !.first = p]
           /\ jobs' = [jobs EXCEPT ![1] = [NoJob EXCEPT !.wf = "A", !.state = "waiting",
                                                        !.data = p.data]]
    /\ UNCHANGED <<options, body, calls, moves, idWrites, dispatches, lastMove, outcomes>>

\* a job added to the bullmq queue directly, with the data as it is
ApiAddRaw ==
    /\ run.pc = "client"
    /\ run' = [run EXCEPT !.pc = "queued", !.first = [wasPrepared |-> FALSE, data |-> run.x]]
    /\ jobs' = [jobs EXCEPT ![1] = [NoJob EXCEPT !.wf = "A", !.state = "waiting",
                                                 !.data = run.x]]
    /\ UNCHANGED <<options, body, calls, moves, idWrites, dispatches, lastMove, outcomes>>

\* JobStateManager.init: prepareData of the job's data, and updateData when
\* the data was not prepared
ApiInit ==
    /\ run.pc = "queued"
    /\ LET p == prepare(jobs[1].data)
           u == IF p.wasPrepared THEN [thrown |-> "none", mem |-> p.data, slot |-> jobs[1].data]
                ELSE persist(p.data, jobs[1].data)
       IN  /\ run' = [run EXCEPT !.pc = "loaded", !.second = p, !.before = p.data,
                                 !.mem = u.mem, !.thrown = u.thrown]
           /\ jobs' = [jobs EXCEPT ![1].data = u.slot]
    /\ UNCHANGED <<options, body, calls, moves, idWrites, dispatches, lastMove, outcomes>>

\* a call of updateData on the loaded state
ApiUpdateData ==
    /\ run.pc = "loaded"
    /\ LET u == persist(run.mem, jobs[1].data)
       IN  /\ run' = [run EXCEPT !.pc = "persisted", !.before = run.mem,
                                 !.mem = u.mem, !.thrown = u.thrown]
           /\ jobs' = [jobs EXCEPT ![1].data = u.slot]
    /\ UNCHANGED <<options, body, calls, moves, idWrites, dispatches, lastMove, outcomes>>

\* ActiveJobExecutor.init: ctx.setStepExecutor
ApiBind ==
    /\ run.pc \in {"loaded", "persisted"}
    /\ ~run.bound
    /\ run' = [run EXCEPT !.bound = TRUE]
    /\ UNCHANGED <<options, body, jobs, calls, moves, idWrites, dispatches, lastMove, outcomes>>

\* a step method of the context is called; a bound executor starts the
\* step and stores the state
ApiStepCall ==
    /\ run.pc \in {"loaded", "persisted"}
    /\ run.method = "-"
    /\ \E m \in Methods :
          LET o == stepCall(run.bound, m)
              u == IF o = "delegated"
                   THEN persist([run.mem EXCEPT !.steps = "full"], jobs[1].data)
                   ELSE [thrown |-> "none", mem |-> run.mem, slot |-> jobs[1].data]
          IN  /\ run' = [run EXCEPT !.method = m, !.outcome = o, !.mem = u.mem]
              /\ jobs' = [jobs EXCEPT ![1].data = u.slot]
    /\ UNCHANGED <<options, body, calls, moves, idWrites, dispatches, lastMove, outcomes>>

NextApi ==
    \/ ApiCreateJob \/ ApiAddRaw \/ ApiInit \/ ApiUpdateData \/ ApiBind \/ ApiStepCall

SpecApi == InitApi /\ [][NextApi]_vars

Validated(j) == parseSourceData(jobs[j].wf, Input)

(***************************************************************************)
(* C24: in every JobState stored for a job, whoever wrote it (the job's    *)
(* executor, a step primitive, an invoker adding its subscription), the    *)
(* source is the validated input the job was created with.                 *)
(***************************************************************************)
C24_SourceImmutable ==
    \A j \in JobIds : jobs[j].state # "none" => jobs[j].data.source = Validated(j)

\* the source of a JobState is an object with a truthy __openqueue key
Nested(data) ==
    /\ Len(data.source) = 1
    /\ data.source[1].obj
    /\ data.source[1].oq \notin {"absent", "false"}

(***************************************************************************)
(* C25: updateData on a JobState whose source has a truthy top-level       *)
(* __openqueue marker fails with an error, and nothing is written: the     *)
(* job's data slot keeps its previous content.                             *)
(***************************************************************************)
C25_PersistRejectsNesting ==
    [][/\ (run.pc = "loaded" /\ run'.pc = "persisted" /\ parses(run.mem) /\ Nested(run.mem))
          => /\ run'.thrown = "InvalidSource"
             /\ jobs' = jobs
             /\ run'.mem = run.mem
       /\ (run.pc = "queued" /\ run'.pc = "loaded" /\ ~run'.second.wasPrepared
              /\ Nested(run'.second.data))
          => /\ run'.thrown = "InvalidSource"
             /\ jobs' = jobs]_vars

\* createJob has added a payload that carries the marker, init has loaded
\* it, and updateData has thrown and left the slot as createJob wrote it
C25_Witness ==
    /\ run.pc = "persisted"
    /\ run.thrown = "InvalidSource"
    /\ Nested(run.before)
    /\ ~run.first.wasPrepared
    /\ run.first = prepare(run.x)
    /\ jobs[1].data = run.first.data

(***************************************************************************)
(* C26: a step method of the execution context (run, sleep, sleepUntil,    *)
(* repeat, invoke, invokeWorkflow) called before a step executor is bound  *)
(* raises an error and changes neither the JobState nor the queue.         *)
(***************************************************************************)
C26_NotReady ==
    [][(run'.method # run.method /\ ~run.bound)
          => /\ run'.outcome = "NotReady"
             /\ jobs' = jobs
             /\ run'.mem = run.mem]_vars

\* sleep, the method that reaches the executor through optional chaining,
\* was called on a context without executor and raised the error
C26_Witness ==
    /\ ~run.bound
    /\ run.method = "sleep"
    /\ run.outcome = "NotReady"

\* the invoke steps job j's workflow function calls under Promise.all
ParallelSteps(j) ==
    IF jobs[j].state = "none" THEN {}
    ELSE UNION {{body[jobs[j].wf][n].id, body[jobs[j].wf][n].also} :
                   n \in {m \in 1..Len(body[jobs[j].wf]) : body[jobs[j].wf][m].kind = "all"}}

\* the stored record of step s of job j, if there is one
Records(j, s) == {jobs[j].data.steps[x] : x \in {s} \cap DOMAIN jobs[j].data.steps}

(***************************************************************************)
(* C27: when a workflow function awaits two invokes with distinct step ids *)
(* under Promise.all, each step enqueues one job in its target workflow    *)
(* over the life of the caller's job, neither step is recorded as failed   *)
(* while no invoked job has failed, and when the Promise.all resolves the  *)
(* caller has the return values of the two invoked jobs.                   *)
(***************************************************************************)
C27_ParallelInvocation ==
    \A j \in JobIds : \A s \in ParallelSteps(j) :
        /\ idWrites[j][s] <= 1
        /\ Cardinality(Enqueued(j, s)) <= 1
        /\ \A r \in Records(j, s) :
              r.status = "failed" => \E k \in Enqueued(j, s) : jobs[k].state = "failed"
        /\ \A w \in Wfs :
              (run[w].job = j /\ run[w].ret = [step |-> body[w][1].id, how |-> "returned",
                                               ran |-> TRUE, result |-> run[w].par[1].value])
              => \A b \in 1..2 :
                    \E k \in Enqueued(j, IF b = 1 THEN body[w][1].id ELSE body[w][1].also) :
                        /\ jobs[k].state = "completed"
                        /\ run[w].par[b].value = jobs[k].returnvalue

\* worker w is past the catch block of a run step whose user function threw
\* an ordinary error
RunFailed(w) ==
    /\ run[w].pc \in {"finally", "settle"}
    /\ run[w].ret.how = "error"
    /\ Call(w).kind = "run"
    /\ run[w].ret.step = Call(w).id

(***************************************************************************)
(* C28: when the user function of a step throws an ordinary error, the     *)
(* failure is in the step's error field of the job's record, the job's     *)
(* errors list has an entry for the step, and the error is rethrown.       *)
(***************************************************************************)
C28_FailureRecorded ==
    \A w \in Wfs :
        RunFailed(w) =>
            LET id == run[w].ret.step
                d == run[w].data
            IN  /\ run[w].out = "error"
                /\ run[w].handles[id].status = "failed"
                /\ id \in DOMAIN jobs[run[w].job].data.steps
                /\ jobs[run[w].job].data.steps[id].error # "none"
                /\ \E n \in DOMAIN d.errors : d.errors[n].stepId = id

\* the invoke step of worker w waits for job k
Waits(w, st, k) ==
    /\ st.status = "delayed"
    /\ st.result = JobRef(k)

(***************************************************************************)
(* C29: a resumption of an invoke step that finds the invoked job neither  *)
(* completed nor failed moves the caller to the delayed set for 1000 ms    *)
(* and throws the suspension, the step staying delayed with the same       *)
(* jobId, in memory and in the record stored at the end of the dispatch;   *)
(* and an invoke step is completed only if a job it enqueued is completed. *)
(***************************************************************************)
C29_InvokeKeepsWaiting ==
    /\ [](\A j \in JobIds : \A s \in DOMAIN jobs[j].data.steps :
             (jobs[j].data.steps[s].type = "invoke-wait-for-result"
                 /\ jobs[j].data.steps[s].status = "completed")
             => \E k \in Enqueued(j, s) : jobs[k].state = "completed")
    /\ [][\A w \in Wfs :
             LET id == Call(w).id
                 k == run[w].invoked
             IN  /\ (run[w].pc = "invoke-state" /\ run'[w] # run[w]
                        /\ jobs[k].state \notin {"completed", "failed"})
                    => /\ run'[w].pc = "invoke-redelay"
                       /\ run'[w].handles = run[w].handles
                       /\ jobs' = jobs
                 /\ (run[w].pc = "invoke-redelay" /\ run'[w] # run[w])
                    => /\ jobs'[run[w].job].state = "delayed"
                       /\ jobs'[run[w].job].delay = PollInterval
                       /\ run'[w].out = "suspend"
                       /\ Waits(w, run'[w].handles[id], k)
                 /\ (run[w].pc = "finally" /\ run'[w].pc = "settle"
                        /\ run[w].ret.how = "suspend" /\ Call(w).kind = "invoke")
                    => /\ id \in DOMAIN jobs'[run[w].job].data.steps
                       /\ Waits(w, jobs'[run[w].job].data.steps[id], k)]_vars

\* a resumption found the invoked job still active and the caller went back
\* to the delayed set, its step waiting for the same job
C29_Witness ==
    \E w \in Wfs :
        /\ run[w].pc = "finally"
        /\ run[w].ret.how = "suspend"
        /\ Call(w).kind = "invoke"
        /\ dispatches[run[w].job] >= 2
        /\ jobs[run[w].invoked].state = "active"
        /\ jobs[run[w].job].state = "delayed"
        /\ jobs[run[w].job].delay = PollInterval
        /\ Waits(w, run[w].handles[Call(w).id], run[w].invoked)

(***************************************************************************)
(* C30: when the user function of a run step throws an ordinary error, the *)
(* error is rethrown and, when the dispatch ends, the step is failed with  *)
(* the error in its record, in memory and as stored; a later dispatch of   *)
(* the job that comes to the failed step executes its user function again  *)
(* instead of skipping the step.                                           *)
(***************************************************************************)
C30_FailedRunIsRetried ==
    /\ [](\A w \in Wfs :
             (RunFailed(w) /\ run[w].pc = "settle") =>
                 LET id == run[w].ret.step
                     stored == jobs[run[w].job].data.steps
                 IN  /\ run[w].out = "error"
                     /\ run[w].handles[id].status = "failed"
                     /\ id \in DOMAIN stored
                     /\ stored[id].status = "failed"
                     /\ stored[id].error # "none")
    /\ [][\A w \in Wfs :
             (/\ run[w].pc = "step" /\ run[w].ip <= Len(body[w])
              /\ Call(w).kind = "run"
              /\ Call(w).id \in DOMAIN run[w].data.steps
              /\ run[w].data.steps[Call(w).id].status = "failed"
              /\ run'[w] # run[w])
             => /\ run'[w].ret.step = Call(w).id
                /\ run'[w].ret.ran]_vars

(***************************************************************************)
(* C31: when the user function of a run step throws a reserved sentinel,   *)
(* run hands the sentinel on unchanged and the step is not recorded as     *)
(* failed, neither in memory nor in the stored record.                     *)
(***************************************************************************)
C31_SentinelNotRecorded ==
    \A w \in Wfs :
        (/\ run[w].pc \in {"finally", "settle"}
         /\ run[w].ret.how = "unrecoverable"
         /\ Call(w).kind = "run")
        => LET id == run[w].ret.step
               stored == jobs[run[w].job].data.steps
           IN  /\ run[w].out = "unrecoverable"
               /\ run[w].handles[id].status # "failed"
               /\ id \in DOMAIN stored => stored[id].status # "failed"

Promotes(w, t) ==
    /\ run[w].pc = "promote"
    /\ run[w].target = t
    /\ jobs[t].state = "delayed"
    /\ jobs'[t].state = "waiting"

(***************************************************************************)
(* C33: the notification of a completing job promotes at most one job per  *)
(* subscription, and only a delayed job of the caller's workflow whose     *)
(* stored step of the subscription is delayed with the completing job's    *)
(* id as jobId; a job that a sleep or repeat step, or an invoke of another *)
(* job, has put into the delayed set is not promoted.                      *)
(***************************************************************************)
C33_PromotesOnlyItsCaller ==
    [][\A w \in Wfs : \A t \in JobIds :
          Promotes(w, t) =>
              LET inv == run[w].data.invocations[run[w].ni]
                  steps == jobs[t].data.steps
              IN  /\ jobs[t].wf = inv.fnId
                  /\ inv.stepId \in DOMAIN steps
                  /\ steps[inv.stepId].status = "delayed"
                  /\ steps[inv.stepId].result = JobRef(run[w].job)
                  /\ lastMove[t].step = inv.stepId
                  /\ Cardinality(run'[w].promoted) <= run[w].ni]_vars

\* the changes of status the transition table of a step has
Transitions ==
    ({"active"} \X {"active", "completed", "failed", "delayed"})
    \cup ({"delayed"} \X {"completed", "failed", "delayed"})

\* step records before and after a step of the program: what is new starts
\* as active, what stays changes by the table or not at all
ByTheTable(old, new) ==
    \A id \in DOMAIN new :
        IF id \in DOMAIN old
        THEN old[id].status = new[id].status
             \/ <<old[id].status, new[id].status>> \in Transitions
        ELSE TRUE

(***************************************************************************)
(* C34: every change of a step's status, in the handles of a dispatch and  *)
(* in the stored record of a job, is one of the transition table: from     *)
(* active to active, completed, failed or delayed, from delayed to         *)
(* completed, failed or delayed, and none out of completed or failed; a    *)
(* handle made for an id without record starts as active.                  *)
(***************************************************************************)
C34_StatusTransitions ==
    [][/\ \A w \in Wfs :
             run'[w].job = run[w].job =>
                 /\ ByTheTable(run[w].handles, run'[w].handles)
                 /\ \A id \in DOMAIN run'[w].handles \ DOMAIN run[w].handles :
                       IF id \in DOMAIN run[w].data.steps
                       THEN run'[w].handles[id].status = run[w].data.steps[id].status
                            \/ <<run[w].data.steps[id].status, run'[w].handles[id].status>> \in Transitions
                       ELSE <<"active", run'[w].handles[id].status>> \in Transitions
       /\ \A j \in JobIds :
             jobs'[j].wf = jobs[j].wf => ByTheTable(jobs[j].data.steps, jobs'[j].data.steps)]_vars

\* the type the first call for step id passed
FirstType(id) ==
    LET made == {n \in 1..Len(body["A"]) : body["A"][n].id = id}
    IN  typeOf(body["A"][CHOOSE n \in made : \A m \in made : n <= m].kind)

(***************************************************************************)
(* C35: forStep returns the handle it has for an id whatever type is       *)
(* passed; without one it adopts the stored StepState of the id and        *)
(* otherwise makes one with status active and the type passed; and the     *)
(* type stored for a step id is, in every dispatch, the type of the first  *)
(* call made for that id.                                                  *)
(***************************************************************************)
C35_ForStep ==
    /\ [](\A id \in DOMAIN jobs[1].data.steps : jobs[1].data.steps[id].type = FirstType(id))
    /\ [][Len(body'["A"]) > Len(body["A"]) =>
             LET call == body'["A"][Len(body'["A"])]
                 d == run["A"]
             IN  IF call.id \in DOMAIN d.handles
                 THEN run'["A"] = d
                 ELSE IF call.id \in DOMAIN d.data.steps
                 THEN run'["A"].handles[call.id] = d.data.steps[call.id]
                 ELSE run'["A"].handles[call.id] = StepState(typeOf(call.kind))]_vars

\* the delayed-default priority configured for workflow w: the workflow's
\* own, else the client's, else 1
Configured(w) ==
    LET priority == getDefaultJobOptions(w, TRUE)
    IN  IF priority.given THEN priority.delayDefaultValue ELSE DelayedPriority

(***************************************************************************)
(* C36: the priority of a job changes only in the first call of a sleep or *)
(* sleepUntil step, after the step was set to delayed and stored and       *)
(* before the job is moved to the delayed set, and it becomes the          *)
(* delayed-default priority configured for the workflow (1 when none is    *)
(* configured); no resumption and no other primitive changes it.           *)
(***************************************************************************)
C36_SleepPriority ==
    [][/\ \A j \in JobIds :
             (jobs[j].state # "none" /\ jobs'[j].priority # jobs[j].priority) =>
                 \E w \in Wfs :
                     /\ run[w].job = j
                     /\ run[w].pc = "sleep-priority"
                     /\ Call(w).kind \in {"sleep", "sleep-until"}
                     /\ run[w].handles[Call(w).id].status = "delayed"
                     /\ jobs[j].state = "active"
                     /\ jobs'[j].state = "active"
       /\ \A w \in Wfs :
             (run[w].pc = "sleep-priority" /\ run'[w].pc # "sleep-priority") =>
                 /\ run'[w].pc = "sleep-delay"
                 /\ jobs'[run[w].job].priority = Configured(w)]_vars

(***************************************************************************)
(* C37: the first call of sleepUntil works on a step of type sleep-until   *)
(* as sleep does, whatever the sign of the duration: the step is delayed   *)
(* and not completed, the job is moved to the delayed set and the call     *)
(* throws the suspension; and when the dispatch that follows ends, the     *)
(* step is completed with result true.                                     *)
(***************************************************************************)
C37_SleepUntil ==
    /\ [](\A w \in Wfs :
             (run[w].pc = "settle" /\ run[w].woke \in StepsOf(run[w].job, {"sleep-until"}))
             => LET stored == jobs[run[w].job].data.steps
                IN  /\ run[w].woke \in DOMAIN stored
                    /\ stored[run[w].woke].type = "sleep-until"
                    /\ stored[run[w].woke].status = "completed"
                    /\ stored[run[w].woke].result = True)
    /\ [][\A w \in Wfs :
             (run[w].pc \in {"sleep-priority", "sleep-delay"} /\ Call(w).kind = "sleep-until")
             => LET st == run[w].handles[Call(w).id]
                IN  /\ st.type = "sleep-until"
                    /\ st.status = "delayed"
                    /\ (run[w].pc = "sleep-delay" /\ run'[w] # run[w])
                       => /\ jobs'[run[w].job].state = "delayed"
                          /\ jobs'[run[w].job].delay \in durations(Call(w))
                          /\ run'[w].out = "suspend"
                          /\ run'[w].handles[Call(w).id] = st]_vars

(***************************************************************************)
(* C38: what a dispatch does to the stored record of its job leaves every  *)
(* step the dispatch has not reached as it was: the step is still in the   *)
(* record, with the same StepState.                                        *)
(***************************************************************************)
C38_UnreachedStepsKept ==
    [][\A w \in Wfs :
          (run[w].job # 0 /\ run'[w] # run[w]) =>
              LET stored == jobs[run[w].job].data.steps
                  after == jobs'[run[w].job].data.steps
              IN  \A id \in DOMAIN stored \ DOMAIN run[w].handles :
                      \/ id \in DOMAIN run'[w].handles
                      \/ id \in DOMAIN after /\ after[id] = stored[id]]_vars
(***************************************************************************)
(* C39: the invoker's write of the subscription into the invoked job's     *)
(* data slot keeps what the invoked job has stored itself: the step        *)
(* records and the metrics that were in the slot before the write are in   *)
(* it after the write.                                                     *)
(***************************************************************************)
C39_SubscriptionKeepsState ==
    [][\A w \in Wfs :
          (run[w].pc = "invoke-subscribe" /\ run'[w].pc = "invoke-delay") =>
              LET stored == jobs[run[w].invoked].data
                  after == jobs'[run[w].invoked].data
              IN  /\ \A id \in DOMAIN stored.steps :
                        id \in DOMAIN after.steps /\ after.steps[id] = stored.steps[id]
                  /\ stored.metrics.startedAt => after.metrics.startedAt
                  /\ stored.metrics.completedAt => after.metrics.completedAt
                  /\ Len(after.errors) >= Len(stored.errors)]_vars

(***************************************************************************)
(* C40: when a dispatch ends with the suspension thrown by a step, that    *)
(* step moved the job to the delayed set earlier in the same dispatch, and *)
(* in the state stored at the end of the dispatch the step is delayed,     *)
(* with needsDelay set for a repeat step and a jobId for an invoke step.   *)
(***************************************************************************)
C40_SuspendMeansDelayed ==
    [][\A w \in Wfs :
          (run[w].pc = "finally" /\ run'[w].pc = "settle" /\ run[w].out = "suspend") =>
              LET id == run[w].ret.step
                  j == run[w].job
                  stored == jobs'[j].data.steps
              IN  /\ run[w].ret.how = "suspend"
                  /\ lastMove[j] = [step |-> id, n |-> dispatches[j]]
                  /\ id \in DOMAIN stored
                  /\ stored[id].status = "delayed"
                  /\ stored[id].type = "repeat" => stored[id].result.needsDelay
                  /\ stored[id].type = "invoke-wait-for-result"
                        => stored[id].result.t = "jobId"]_vars

\* a dispatch in which a step threw the suspension is about to store its state
C40_Witness ==
    \E w \in Wfs :
        /\ run[w].pc = "settle"
        /\ run[w].out = "suspend"
        /\ run[w].ret.how = "suspend"
        /\ run[w].ret.step \in DOMAIN jobs[run[w].job].data.steps
        /\ jobs[run[w].job].data.steps[run[w].ret.step].type = "repeat"

====
